---------------------------- MODULE Spec2Model ----------------------------
(***************************************************************************)
(* Tool-contract normalization layer of the QuantConnect MCP server:       *)
(*   src/src/tool_contract.py  Contract Registry, Invocation Interceptor,  *)
(*                             Result Envelope, Structured Call Logger     *)
(*   src/src/tool_helpers.py   execute_api_call                            *)
(*   src/src/tool_args.py      Schema Deriver, tool_with_args              *)
(*                                                                         *)
(* Python values are tagged records: the field k names the Python type and *)
(* the other fields carry the content.  Two records of different kinds     *)
(* have different field names, so they are never equal.                    *)
(***************************************************************************)
EXTENDS Integers, Sequences, FiniteSets, TLC

VARIABLES
    value,      \* envelope: the Python value handed to the Result Envelope
    outcome,    \* envelope: what the producer did: [kind, result]
    envPc,      \* envelope: "ready" before the producer ran, "done" after
    _CONTRACTS,             \* id(tool.fn_metadata) -> ToolContractConfig
    _CONTRACTS_BY_NAME,     \* tool.name -> ToolContractConfig
    _PATCHED,               \* the module flag of _ensure_patches_applied
    wrappers,               \* how many times the FastMCP routines were wrapped
    registration,           \* how the last register_tool_contract call went
    MCP_STRUCTURED_LOGS,    \* the environment variable, "1" or "0"
    calls,                  \* call id -> the tool call in that slot
    _MODEL_CACHE,           \* tool_args: request model -> the Args model derived from it
    frames,                 \* tool_args: the get_args_model calls in progress, outermost first
    derived,                \* tool_args: how the get_args_model calls of the callers ended
    created,                \* tool_args: how many classes create_model has made
    _tools,                 \* FastMCP tool manager: tool name -> its declared parameters schema
    listed                  \* what the last mcp.list_tools() gave: tool name -> inputSchema

envVars == <<value, outcome, envPc>>
registryVars == <<_CONTRACTS, _CONTRACTS_BY_NAME, _PATCHED, wrappers, registration>>
callVars == <<registryVars, MCP_STRUCTURED_LOGS, calls>>
deriverVars == <<_MODEL_CACHE, frames, derived, created>>
schemaVars == <<_tools, listed>>
vars == <<envVars, callVars, deriverVars, schemaVars>>

\* Largest number of nodes (leaves and containers) of a generated value.
MaxNodes == 3
\* Largest number of keys, at all depths together, of the raw arguments of a call.
MaxKeys == 3
\* Number of call slots.
MaxCalls == 2
\* Largest number of files in the files argument of a call.
MaxFiles == 2

---------------------------------------------------------------------------
(* Python values                                                           *)

NoneV == [k |-> "none"]
\* str: the sequence of its characters
StrV(s) == [k |-> "str", s |-> s]
IntV(n) == [k |-> "int", n |-> n]
BoolV(b) == [k |-> "bool", b |-> b]
\* float with its decimal numeral, the sequence of its characters
FloatV(f) == [k |-> "float", f |-> f]
\* decimal.Decimal with its numeral
DecimalV(d) == [k |-> "decimal", d |-> d]
\* datetime.date with its fields
DateV(y, m, d) == [k |-> "date", y |-> y, m |-> m, d |-> d]
\* bytes / bytearray with their octets
BytesV(b) == [k |-> "bytes", b |-> b]
ByteArrayV(b) == [k |-> "bytearray", b |-> b]
\* list, tuple: the elements in order; set: the elements in iteration order
ListV(xs) == [k |-> "list", xs |-> xs]
TupleV(xs) == [k |-> "tuple", xs |-> xs]
SetV(xs) == [k |-> "set", xs |-> xs]
\* dict: the items <<key, value>> in insertion order, keys pairwise distinct
DictV(items) == [k |-> "dict", items |-> items]

EmptyDict == DictV(<<>>)

IsDict(v) == v.k = "dict"

Range(f) == {f[i] : i \in DOMAIN f}

\* The scalar values of the model: one of every kind _sanitize_payload tells
\* apart, a str and an int that pass through, and a bytearray (binary, but
\* no instance of bytes).
Leaves ==
    { NoneV, StrV(<<"a">>), IntV(1), DateV(2024, 1, 2), DecimalV(<<"1", ".", "5">>),
      BytesV(<<97>>), ByteArrayV(<<97>>) }

\* dict keys: two strings and an int whose str() is one of them
DictKeys == { StrV(<<"a">>), StrV(<<"1">>), IntV(1) }

RECURSIVE Hashable(_)
Hashable(v) ==
    CASE v.k \in {"list", "set", "dict", "bytearray"} -> FALSE
      [] v.k = "tuple" -> \A i \in DOMAIN v.xs : Hashable(v.xs[i])
      [] OTHER -> TRUE

Injective(f) == \A i, j \in DOMAIN f : i # j => f[i] # f[j]

RECURSIVE ValuesOfSize(_), ForestsOfSize(_)
\* the sequences of values with n nodes in total
ForestsOfSize(n) ==
    IF n = 0 THEN { <<>> }
    ELSE UNION { { <<v>> \o f : v \in ValuesOfSize(j), f \in ForestsOfSize(n - j) }
                 : j \in 1..n }
\* the values with exactly n nodes
ValuesOfSize(n) ==
    LET F == ForestsOfSize(n - 1)
        KeySeqs(len) == { ks \in [1..len -> DictKeys] : Injective(ks) }
    IN  (IF n = 1 THEN Leaves ELSE {})
        \cup { ListV(f) : f \in F }
        \cup { TupleV(f) : f \in F }
        \cup { SetV(f) : f \in { g \in F : Injective(g)
                                    /\ \A i \in DOMAIN g : Hashable(g[i]) } }
        \cup UNION { { DictV([i \in DOMAIN f |-> <<ks[i], f[i]>>]) : ks \in KeySeqs(Len(f)) }
                     : f \in F }

Values == UNION { ValuesOfSize(n) : n \in 1..MaxNodes }

---------------------------------------------------------------------------
(* Result Envelope: src/src/tool_contract.py                               *)

DecimalDigits == <<"0", "1", "2", "3", "4", "5", "6", "7", "8", "9">>

\* Mutant of PyStr: the key is kept as it is.
PyStr_unchanged(key) == key

\* str(key) of a dict key
PyStr(key) ==
    CASE key.k = "str" -> key
      [] key.k = "int" -> StrV(<<DecimalDigits[key.n + 1]>>)
      [] key.k = "none" -> StrV(<<"N", "o", "n", "e">>)

\* d[key] = val on a dict given as its items
DictSet(items, key, val) ==
    IF \E i \in DOMAIN items : items[i][1] = key
    THEN [i \in DOMAIN items |-> IF items[i][1] = key THEN <<key, val>> ELSE items[i]]
    ELSE Append(items, <<key, val>>)

Pad2(n) == IF n < 10 THEN <<"0", DecimalDigits[n + 1]>>
           ELSE <<DecimalDigits[(n \div 10) + 1], DecimalDigits[(n % 10) + 1]>>
Pad4(n) == <<DecimalDigits[(n \div 1000) + 1], DecimalDigits[((n \div 100) % 10) + 1]>>
           \o Pad2(n % 100)
\* date.isoformat(): YYYY-MM-DD, as the sequence of its characters
isoformat(v) == StrV(Pad4(v.y) \o <<"-">> \o Pad2(v.m) \o <<"-">> \o Pad2(v.d))

\* base64.b64encode(b).decode("ascii") of the byte strings of the model
Base64Alphabet ==
    <<"A","B","C","D","E","F","G","H","I","J","K","L","M","N","O","P",
      "Q","R","S","T","U","V","W","X","Y","Z","a","b","c","d","e","f",
      "g","h","i","j","k","l","m","n","o","p","q","r","s","t","u","v",
      "w","x","y","z","0","1","2","3","4","5","6","7","8","9","+","/">>
RECURSIVE b64encode(_)
b64encode(b) ==
    IF Len(b) = 0 THEN <<>>
    ELSE LET b1 == b[1]
             b2 == IF Len(b) >= 2 THEN b[2] ELSE 0
             b3 == IF Len(b) >= 3 THEN b[3] ELSE 0
             c1 == Base64Alphabet[(b1 \div 4) + 1]
             c2 == Base64Alphabet[((b1 % 4) * 16 + (b2 \div 16)) + 1]
             c3 == IF Len(b) >= 2 THEN Base64Alphabet[((b2 % 16) * 4 + (b3 \div 64)) + 1]
                   ELSE "="
             c4 == IF Len(b) >= 3 THEN Base64Alphabet[(b3 % 64) + 1] ELSE "="
         IN  <<c1, c2, c3, c4>>
             \o b64encode(IF Len(b) > 3 THEN SubSeq(b, 4, Len(b)) ELSE <<>>)

\* Mutant of _sanitize_payload: the tuple branch is missing.
RECURSIVE _sanitize_payload_skips_tuple(_)
_sanitize_payload_skips_tuple(v) ==
    LET RECURSIVE Items(_)
        Items(n) == IF n = 0 THEN <<>>
                    ELSE DictSet(Items(n - 1), PyStr(v.items[n][1]),
                                 _sanitize_payload_skips_tuple(v.items[n][2]))
    IN  CASE v.k = "none" -> StrV(<<>>)
          [] v.k = "dict" -> DictV(Items(Len(v.items)))
          [] v.k \in {"list", "set"} ->
                ListV([i \in DOMAIN v.xs |-> _sanitize_payload_skips_tuple(v.xs[i])])
          [] v.k = "date" -> isoformat(v)
          [] v.k = "decimal" -> FloatV(v.d)
          [] v.k = "bytes" -> StrV(b64encode(v.b))
          [] OTHER -> v

RECURSIVE _sanitize_payload(_)
_sanitize_payload(v) ==
    LET RECURSIVE Items(_)
        \* the dict comprehension {str(key): _sanitize_payload(val) ...}
        Items(n) == IF n = 0 THEN <<>>
                    ELSE DictSet(Items(n - 1), PyStr(v.items[n][1]),
                                 _sanitize_payload(v.items[n][2]))
    IN  CASE v.k = "none" -> StrV(<<>>)
          [] v.k = "dict" -> DictV(Items(Len(v.items)))
          [] v.k \in {"list", "tuple", "set"} ->
                ListV([i \in DOMAIN v.xs |-> _sanitize_payload(v.xs[i])])
          [] v.k = "date" -> isoformat(v)
          [] v.k = "decimal" -> FloatV(v.d)
          [] v.k = "bytes" -> StrV(b64encode(v.b))
          [] OTHER -> v

ToolError(code, message, hint) == [code |-> code, message |-> message, hint |-> hint]
ToolResult(success, error, data) == [success |-> success, error |-> error, data |-> data]

\* code is a string; message and hint are texts
_empty_error == ToolError("", <<>>, <<>>)

success_result(data) == ToolResult(TRUE, _empty_error, _sanitize_payload(data))

\* Mutant of error_result: the message is also put into data.
error_result_with_data(code, message, hint) ==
    [success |-> FALSE, error |-> [code |-> code, message |-> message, hint |-> hint],
     data |-> DictV(<< <<StrV(<<"message">>), StrV(message)>> >>)]

error_result(code, message, hint) == ToolResult(FALSE, ToolError(code, message, hint), EmptyDict)

\* src/src/tool_helpers.py: _ensure_dict
_ensure_dict(payload, wrap_key) ==
    IF IsDict(payload) THEN payload ELSE DictV(<< <<wrap_key, payload>> >>)

\* One error of pydantic's ValidationError.errors(): its type, its loc (field
\* names and list indexes) and its msg.
LocName(name) == [name |-> name]
LocIndex(index) == [index |-> index]
ErrorDetail(type, loc, msg) == [type |-> type, loc |-> loc, msg |-> msg]

\* A text is the sequence of its fragments; "" is <<>>.
RECURSIVE Join(_, _)
Join(sep, texts) ==
    IF Len(texts) = 0 THEN <<>>
    ELSE IF Len(texts) = 1 THEN texts[1]
    ELSE texts[1] \o <<sep>> \o Join(sep, Tail(texts))

RECURSIVE Flatten(_)
Flatten(seqs) == IF Len(seqs) = 0 THEN <<>> ELSE seqs[1] \o Flatten(Tail(seqs))

\* The field names of the model in the order of sorted().
NameOrder == <<"args", "content", "files", "model", "name", "projectId", "status">>
sorted(names) == SelectSeq(NameOrder, LAMBDA n : n \in names)

\* str(part) of a loc part
PartText(part) == IF "name" \in DOMAIN part THEN part.name
                  ELSE DecimalDigits[part.index + 1]
IsNamePart(part) == "name" \in DOMAIN part

_validation_error_response(errors) ==
    LET location(e) ==
            LET parts == SelectSeq(e.loc, LAMBDA part : ~(IsNamePart(part) /\ part.name = ""))
            IN  Join(".", [i \in DOMAIN parts |-> <<PartText(parts[i])>>])
        messageOf(e) ==
            IF location(e) # <<>> THEN location(e) \o <<": ", e.msg>> ELSE <<e.msg>>
        messages == [i \in DOMAIN errors |-> messageOf(errors[i])]
        missingOf(e) ==
            IF e.type = "missing"
            THEN SelectSeq(e.loc, IsNamePart)
            ELSE <<>>
        missing == Flatten([i \in DOMAIN errors |-> missingOf(errors[i])])
        hint == IF missing # <<>>
                THEN <<"Provide values for required fields: ">>
                     \o Join(", ", [i \in DOMAIN sorted({p.name : p \in Range(missing)})
                                      |-> <<sorted({p.name : p \in Range(missing)})[i]>>])
                ELSE <<>>
        joined == Join("; ", messages)
    IN  error_result("validation-error",
                     IF joined # <<>> THEN joined ELSE <<"Invalid request payload">>,
                     hint)

---------------------------------------------------------------------------
(* execute_api_call: src/src/tool_helpers.py                               *)

\* How "await post(...)" ends.
PostOutcomes == {"HTTPStatusError", "RequestError", "Exception", "response"}
\* The transform argument: None, a transform that keeps the response under
\* "raw" (src/src/tools/account.py:26), or one that raises.
Transforms == {"None", "raw", "raises"}

\* transform(response) for the "raw" transform; it reads response.get(...),
\* which raises on a response that is no dict.
transform_raises(t, response) == t = "raises" \/ (t = "raw" /\ ~IsDict(response))
transform(t, response) ==
    IF t = "None" THEN _ensure_dict(response, StrV(<<"r">>))
    ELSE DictV(<< <<StrV(<<"r", "a", "w">>), response>> >>)

\* Mutant of execute_api_call: the transform runs inside the first try, its
\* exception is reported as that of the request.
execute_api_call_one_try(post, t, response) ==
    CASE post = "HTTPStatusError" ->
            error_result("api-http-error", <<"HTTP ", "status_code", ": ", "detail">>,
                         <<"Verify credentials and payload fields for this QuantConnect API call.">>)
      [] post = "RequestError" ->
            error_result("api-request-error", <<"str(exc)">>,
                         <<"Check MCP network connectivity.">>)
      [] post = "Exception" \/ transform_raises(t, response) ->
            error_result("api-internal-error", <<"str(exc)">>,
                         <<"Retry later or inspect server logs.">>)
      [] OTHER -> success_result(transform(t, response))

execute_api_call(post, t, response) ==
    CASE post = "HTTPStatusError" ->
            error_result("api-http-error", <<"HTTP ", "status_code", ": ", "detail">>,
                         <<"Verify credentials and payload fields for this QuantConnect API call.">>)
      [] post = "RequestError" ->
            error_result("api-request-error", <<"str(exc)">>,
                         <<"Check MCP network connectivity.">>)
      [] post = "Exception" ->
            error_result("api-internal-error", <<"str(exc)">>,
                         <<"Retry later or inspect server logs.">>)
      [] OTHER ->
            IF transform_raises(t, response)
            THEN error_result("result-normalization-error", <<"str(exc)">>,
                              <<"File a bug with tool inputs.">>)
            ELSE success_result(transform(t, response))

---------------------------------------------------------------------------
(* The tools and their argument models                                     *)

\* The tools held by the FastMCP tool manager:
\*   list_live_algorithms(projectId: str, status: str)   src/src/tools/live.py:293
\*   read_live_algorithm(projectId: str)                 src/src/tools/live.py:275
\*   update_code_to_pep8(files: List[FilePayload])       src/src/tools/ai.py:170
\*   inner(args: ArgsBaseModel), the tool tool_with_args registers for a
\*   function without request model                      src/src/tool_args.py:101
ToolNames == { "list_live_algorithms", "read_live_algorithm", "update_code_to_pep8", "inner" }

Key(name) == StrV(<<name>>)

Field(name, annotation) == [name |-> name, annotation |-> annotation]

\* tool.fn_metadata.arg_model: the fields of the signature, all required
arg_model(tool) ==
    CASE tool = "list_live_algorithms" -> <<Field("projectId", "str"), Field("status", "str")>>
      [] tool = "read_live_algorithm" -> <<Field("projectId", "str")>>
      [] tool = "update_code_to_pep8" -> <<Field("files", "List[FilePayload]")>>
      [] tool = "inner" -> <<Field("args", "ArgsBaseModel")>>

\* class FilePayload(TypedDict): name: str, content: str, both required
FilePayload == <<Field("name", "str"), Field("content", "str")>>

\* id(tool.fn_metadata)
fn_metadata_id(tool) ==
    CASE tool = "list_live_algorithms" -> 1
      [] tool = "read_live_algorithm" -> 2
      [] tool = "inner" -> 3
      [] tool = "update_code_to_pep8" -> 4

ToolContractConfig(name, defaults, safe) == [name |-> name, defaults |-> defaults, safe |-> safe]

\* The register_tool_contract calls of the tool modules.
ContractTools == { "list_live_algorithms", "read_live_algorithm", "update_code_to_pep8" }
RegisteredContract(tool) ==
    CASE tool = "list_live_algorithms" ->
            ToolContractConfig(tool,
                DictV(<< <<Key("projectId"), StrV(<<>>)>>, <<Key("status"), StrV(<<>>)>> >>),
                FALSE)
      [] tool = "read_live_algorithm" -> ToolContractConfig(tool, EmptyDict, FALSE)
      [] tool = "update_code_to_pep8" -> ToolContractConfig(tool, EmptyDict, FALSE)

---------------------------------------------------------------------------
(* dict operations                                                         *)

DictKeysOf(d) == { d.items[i][1] : i \in DOMAIN d.items }
HasKey(d, key) == key \in DictKeysOf(d)
\* d.get(key): None when the key is absent
DictGet(d, key) ==
    IF HasKey(d, key)
    THEN d.items[CHOOSE i \in DOMAIN d.items : d.items[i][1] = key][2]
    ELSE NoneV

\* {**a, **b}
RECURSIVE DictMergeItems(_, _)
DictMergeItems(items, more) ==
    IF Len(more) = 0 THEN items
    ELSE DictMergeItems(DictSet(items, more[1][1], more[1][2]), Tail(more))
DictMerge(a, b) == DictV(DictMergeItems(a.items, b.items))

\* two dicts with the same keys and the same value under each key
SameMapping(a, b) ==
    /\ DictKeysOf(a) = DictKeysOf(b)
    /\ \A key \in DictKeysOf(a) : DictGet(a, key) = DictGet(b, key)

---------------------------------------------------------------------------
(* Invocation Interceptor: src/src/tool_contract.py                        *)

get_tool_contract(metadata) ==
    IF metadata \in DOMAIN _CONTRACTS THEN _CONTRACTS[metadata] ELSE NoneV

IsNone(v) == "k" \in DOMAIN v /\ v.k = "none"

\* Mutant of _unwrap_arguments: only the key args is unwrapped.
_unwrap_arguments_args_only(arguments) ==
    IF ~IsDict(arguments) THEN EmptyDict
    ELSE IF IsDict(DictGet(arguments, Key("args"))) THEN DictGet(arguments, Key("args"))
    ELSE arguments

\* Mutant of _unwrap_arguments: model is looked up before args.
_unwrap_arguments_model_first(arguments) ==
    IF ~IsDict(arguments) THEN EmptyDict
    ELSE IF IsDict(DictGet(arguments, Key("model"))) THEN DictGet(arguments, Key("model"))
    ELSE IF IsDict(DictGet(arguments, Key("args"))) THEN DictGet(arguments, Key("args"))
    ELSE arguments

\* Mutant of _unwrap_arguments: what was unwrapped is unwrapped once more.
_unwrap_arguments_twice(arguments) ==
    LET once(a) ==
            IF ~IsDict(a) THEN EmptyDict
            ELSE IF IsDict(DictGet(a, Key("args"))) THEN DictGet(a, Key("args"))
            ELSE IF IsDict(DictGet(a, Key("model"))) THEN DictGet(a, Key("model"))
            ELSE a
    IN  once(once(arguments))

_unwrap_arguments(arguments) ==
    IF ~IsDict(arguments) THEN EmptyDict
    ELSE IF IsDict(DictGet(arguments, Key("args"))) THEN DictGet(arguments, Key("args"))
    ELSE IF IsDict(DictGet(arguments, Key("model"))) THEN DictGet(arguments, Key("model"))
    ELSE arguments

\* Mutant of prepared_arguments: the defaults are not applied.
prepared_arguments_without_defaults(config, raw_arguments) == raw_arguments

\* Mutant of prepared_arguments: the defaults win over the caller's values.
prepared_arguments_defaults_win(config, raw_arguments) ==
    IF ~IsNone(config) /\ config.defaults # EmptyDict
    THEN DictMerge(raw_arguments, config.defaults)
    ELSE raw_arguments

\* lines 112-115: the defaults overlaid by the unwrapped arguments
prepared_arguments(config, raw_arguments) ==
    IF ~IsNone(config) /\ config.defaults # EmptyDict
    THEN DictMerge(config.defaults, raw_arguments)
    ELSE raw_arguments

\* json.loads on the str values of the model: "7" parses to 7, "" does not parse
json_loads(v) == IF v = StrV(<<"7">>) THEN IntV(7) ELSE [k |-> "JSONDecodeError"]

FieldNames(model) == { model[i].name : i \in DOMAIN model }
AnnotationOf(model, name) ==
    model[CHOOSE i \in DOMAIN model : model[i].name = name].annotation

\* FuncMetadata.pre_parse_json: a str given for a field that is no str is
\* replaced by its JSON value unless that value is a str or a number.
pre_parse_json(model, data) ==
    LET parse(item) ==
            LET key == item[1]
                val == item[2]
            IN  IF /\ key.s[1] \in FieldNames(model)
                   /\ val.k = "str"
                   /\ AnnotationOf(model, key.s[1]) # "str"
                   /\ json_loads(val).k \notin {"JSONDecodeError", "str", "int", "float"}
                THEN <<key, json_loads(val)>>
                ELSE item
    IN  DictV([i \in DOMAIN data.items |-> parse(data.items[i])])

\* The errors of the element at the given index of a List[FilePayload] field:
\* no dict, or per key of the TypedDict a missing key or a value that is no
\* str.  Keys the TypedDict does not name are ignored.
FilePayloadErrors(field, index, element) ==
    IF element.k # "dict"
    THEN <<ErrorDetail("dict_type", <<LocName(field), LocIndex(index)>>,
                       "Input should be a valid dictionary")>>
    ELSE Flatten([j \in DOMAIN FilePayload |->
            IF ~HasKey(element, Key(FilePayload[j].name))
            THEN <<ErrorDetail("missing",
                               <<LocName(field), LocIndex(index), LocName(FilePayload[j].name)>>,
                               "Field required")>>
            ELSE IF DictGet(element, Key(FilePayload[j].name)).k # "str"
            THEN <<ErrorDetail("string_type",
                               <<LocName(field), LocIndex(index), LocName(FilePayload[j].name)>>,
                               "Input should be a valid string")>>
            ELSE <<>>])

\* The errors of arg_model.model_validate(data): in field order a missing
\* field or a value of the wrong type, then the keys that are no field
\* (extra="forbid").  ArgsBaseModel has no fields and forbids extras as well.
ValidationErrors(model, data) ==
    LET fieldErrors(f) ==
            IF ~HasKey(data, Key(f.name))
            THEN <<ErrorDetail("missing", <<LocName(f.name)>>, "Field required")>>
            ELSE LET val == DictGet(data, Key(f.name))
                 IN  IF f.annotation = "str"
                     THEN IF val.k = "str" THEN <<>>
                          ELSE <<ErrorDetail("string_type", <<LocName(f.name)>>,
                                             "Input should be a valid string")>>
                     ELSE IF f.annotation = "List[FilePayload]"
                          THEN IF val.k # "list"
                               THEN <<ErrorDetail("list_type", <<LocName(f.name)>>,
                                                  "Input should be a valid list")>>
                               ELSE Flatten([i \in DOMAIN val.xs |->
                                                FilePayloadErrors(f.name, i - 1, val.xs[i])])
                     ELSE IF val.k # "dict"
                          THEN <<ErrorDetail("model_type", <<LocName(f.name)>>,
                                             "Input should be a valid dictionary or instance")>>
                          ELSE [i \in DOMAIN val.items |->
                                   ErrorDetail("extra_forbidden",
                                               <<LocName(f.name), LocName(val.items[i][1].s[1])>>,
                                               "Extra inputs are not permitted")]
        extras == SelectSeq(data.items, LAMBDA item : item[1].s[1] \notin FieldNames(model))
    IN  Flatten([i \in DOMAIN model |-> fieldErrors(model[i])])
        \o [i \in DOMAIN extras |->
               ErrorDetail("extra_forbidden", <<LocName(extras[i][1].s[1])>>,
                           "Extra inputs are not permitted")]

\* The validated value of a field: a FilePayload keeps the keys of the
\* TypedDict, every other value of the model is kept as it is.
validated_value(annotation, val) ==
    IF annotation = "List[FilePayload]"
    THEN ListV([i \in DOMAIN val.xs |->
            DictV(SelectSeq(val.xs[i].items,
                            LAMBDA item : item[1] \in { Key(FilePayload[j].name)
                                                          : j \in DOMAIN FilePayload }))])
    ELSE val

\* arguments_parsed_model.model_dump_one_level(): the fields in model order
model_dump_one_level(model, data) ==
    DictV([i \in DOMAIN model |->
              <<Key(model[i].name),
                validated_value(model[i].annotation, DictGet(data, Key(model[i].name)))>>])

\* Mutant of patched_call_fn: the test of line 121 is inverted, the
\* ValidationError of a tool with a contract is raised again.
patched_call_fn_raises_with_contract(config, tool, arguments_to_validate) ==
    LET raw_arguments == _unwrap_arguments(arguments_to_validate)
        prepared == prepared_arguments(config, raw_arguments)
        arguments_pre_parsed == pre_parse_json(arg_model(tool), prepared)
        errors == ValidationErrors(arg_model(tool), arguments_pre_parsed)
        seen == [config |-> config, raw_arguments |-> raw_arguments,
                 prepared_arguments |-> prepared, errors |-> errors]
    IN  IF errors # <<>>
        THEN IF ~IsNone(config)
             THEN [kind |-> "raise"] @@ seen
             ELSE [kind |-> "return", result |-> _validation_error_response(errors)] @@ seen
        ELSE [kind |-> "invoke",
              arguments_parsed_dict |->
                  model_dump_one_level(arg_model(tool), arguments_pre_parsed)] @@ seen

\* Mutant of patched_call_fn: lines 121-122 are missing, every ValidationError
\* is turned into a ToolResult.
patched_call_fn_never_raises(config, tool, arguments_to_validate) ==
    LET raw_arguments == _unwrap_arguments(arguments_to_validate)
        prepared == prepared_arguments(config, raw_arguments)
        arguments_pre_parsed == pre_parse_json(arg_model(tool), prepared)
        errors == ValidationErrors(arg_model(tool), arguments_pre_parsed)
        seen == [config |-> config, raw_arguments |-> raw_arguments,
                 prepared_arguments |-> prepared, errors |-> errors]
    IN  IF errors # <<>>
        THEN [kind |-> "return", result |-> _validation_error_response(errors)] @@ seen
        ELSE [kind |-> "invoke",
              arguments_parsed_dict |->
                  model_dump_one_level(arg_model(tool), arguments_pre_parsed)] @@ seen

\* Mutant of patched_call_fn: the handler is called whether or not the
\* arguments are valid.
patched_call_fn_invokes_unvalidated(config, tool, arguments_to_validate) ==
    LET raw_arguments == _unwrap_arguments(arguments_to_validate)
        prepared == prepared_arguments(config, raw_arguments)
        arguments_pre_parsed == pre_parse_json(arg_model(tool), prepared)
        errors == ValidationErrors(arg_model(tool), arguments_pre_parsed)
    IN  [kind |-> "invoke", arguments_parsed_dict |-> arguments_pre_parsed,
         config |-> config, raw_arguments |-> raw_arguments,
         prepared_arguments |-> prepared, errors |-> errors]

\* patched_call_fn, lines 109-131, up to the invocation of the handler, for
\* the config that get_tool_contract(self) returned (line 108):
\*   kind "raise"   the ValidationError propagates
\*   kind "return"  the validation-error ToolResult is returned
\*   kind "invoke"  fn(**arguments_parsed_dict) is called
patched_call_fn(config, tool, arguments_to_validate) ==
    LET raw_arguments == _unwrap_arguments(arguments_to_validate)
        prepared == prepared_arguments(config, raw_arguments)
        arguments_pre_parsed == pre_parse_json(arg_model(tool), prepared)
        errors == ValidationErrors(arg_model(tool), arguments_pre_parsed)
        seen == [config |-> config, raw_arguments |-> raw_arguments,
                 prepared_arguments |-> prepared, errors |-> errors]
    IN  IF errors # <<>>
        THEN IF IsNone(config)
             THEN [kind |-> "raise"] @@ seen
             ELSE [kind |-> "return", result |-> _validation_error_response(errors)] @@ seen
        ELSE [kind |-> "invoke",
              arguments_parsed_dict |->
                  model_dump_one_level(arg_model(tool), arguments_pre_parsed)] @@ seen

---------------------------------------------------------------------------
(* The raw arguments of the calls                                          *)

\* The keys of the raw arguments: the two wrapper keys and the field names.
ArgKeys == <<"args", "model", "projectId", "status">>

RECURSIVE ArgDicts(_), ArgItems(_, _)
\* the item lists with n keys in total whose top-level keys are ArgKeys[from..]
ArgItems(n, from) ==
    IF n = 0 THEN { <<>> }
    ELSE UNION { UNION { { << <<Key(ArgKeys[j]), val>> >> \o rest :
                             val \in (IF m = 0 THEN { StrV(<<"7">>), EmptyDict }
                                      ELSE ArgDicts(m)),
                             rest \in ArgItems(n - 1 - m, j + 1) }
                         : m \in 0..(n - 1) }
                 : j \in from..Len(ArgKeys) }
\* the dicts with n keys in total: str values and nested dicts
ArgDicts(n) == { DictV(items) : items \in ArgItems(n, 1) }

\* The file objects a caller passes: name and content, either may be left out.
FileDicts ==
    { DictV(SelectSeq(<< <<Key("name"), StrV(<<"7">>)>>, <<Key("content"), StrV(<<"7">>)>> >>,
                      LAMBDA item : item[1] \in keys))
      : keys \in SUBSET { Key("name"), Key("content") } }

\* {"files": [...]} with at most MaxFiles file objects, and {"files": "7"}
FileArguments ==
    { DictV(<< <<Key("files"), ListV(files)>> >>)
      : files \in UNION { [1..n -> FileDicts] : n \in 0..MaxFiles } }
    \cup { DictV(<< <<Key("files"), StrV(<<"7">>)>> >>) }

\* What a caller may pass as arguments: a dict of at most MaxKeys keys, a
\* files argument, or something that is no dict.
RawArguments == UNION { ArgDicts(n) : n \in 0..MaxKeys } \cup FileArguments \cup { NoneV }

---------------------------------------------------------------------------
(* The tool calls as a state machine                                       *)

CallIds == 1..MaxCalls

IdleCall == [pc |-> "idle"]

\* What the handlers return: a ToolResult of execute_api_call or error_result.
HandlerResults ==
    { success_result(DictV(<< <<StrV(<<"raw">>), EmptyDict>> >>)),
      success_result(DictV(<< <<StrV(<<"raw">>), ByteArrayV(<<97>>)>> >>)),
      error_result("api-http-error", <<"HTTP ", "status_code", ": ", "detail">>,
                   <<"Verify credentials and payload fields for this QuantConnect API call.">>) }

\* How a register_tool_contract call went: whether get_tool returned None
\* (line 66) and the exception that left the call.  Before the first call the
\* record is that of a call that returned.
Registered == [tool_is_None |-> FALSE, raised |-> "none"]
NotRegistered == [tool_is_None |-> TRUE, raised |-> "ValueError"]

CallInit ==
    /\ _CONTRACTS = << >>
    /\ _CONTRACTS_BY_NAME = << >>
    /\ _PATCHED = FALSE
    /\ wrappers = 0
    /\ registration = Registered
    /\ MCP_STRUCTURED_LOGS \in {"0", "1"}
    /\ calls = [c \in CallIds |-> IdleCall]

\* Mutant of _ensure_patches_applied: the test of _PATCHED (lines 95-96) is
\* missing, every call wraps the routines again.
_ensure_patches_applied_unguarded ==
    /\ _PATCHED' = TRUE
    /\ wrappers' = wrappers + 1

_ensure_patches_applied ==
    /\ _PATCHED' = TRUE
    /\ wrappers' = IF _PATCHED THEN wrappers ELSE wrappers + 1

\* f with x mapped to y
Put(f, x, y) == [z \in DOMAIN f \cup {x} |-> IF z = x THEN y ELSE f[z]]

initialize_tool_contracts ==
    /\ _ensure_patches_applied
    /\ UNCHANGED <<_CONTRACTS, _CONTRACTS_BY_NAME, registration,
                   MCP_STRUCTURED_LOGS, calls, envVars, deriverVars, schemaVars>>

\* mcp._tool_manager.get_tool(tool_name): the tool, None under a name that
\* is not hosted
get_tool(tool_name) == IF tool_name \in ToolNames THEN [name |-> tool_name] ELSE NoneV

\* Mutant of register_tool_contract: the test of lines 67-68 comes after the
\* by-name index was written.
register_tool_contract_raises_late(tool_name, defaults, safe) ==
    LET tool == get_tool(tool_name)
        config == ToolContractConfig(tool_name,
                      IF defaults = NoneV THEN EmptyDict ELSE defaults, safe)
    IN  /\ _CONTRACTS_BY_NAME' = Put(_CONTRACTS_BY_NAME, tool_name, config)
        /\ IF IsNone(tool)
           THEN /\ registration' = NotRegistered
                /\ UNCHANGED <<_CONTRACTS, _PATCHED, wrappers>>
           ELSE /\ _CONTRACTS' = Put(_CONTRACTS, fn_metadata_id(tool.name), config)
                /\ registration' = Registered
                /\ _ensure_patches_applied
        /\ UNCHANGED <<MCP_STRUCTURED_LOGS, calls, envVars, deriverVars, schemaVars>>

\* Mutant of register_tool_contract: the by-identity index is left as it is.
register_tool_contract_by_name_only(tool_name, defaults, safe) ==
    /\ ~IsNone(get_tool(tool_name))
    /\ _CONTRACTS_BY_NAME' = Put(_CONTRACTS_BY_NAME, tool_name,
                                 ToolContractConfig(tool_name, defaults, safe))
    /\ registration' = Registered
    /\ _ensure_patches_applied
    /\ UNCHANGED <<_CONTRACTS, MCP_STRUCTURED_LOGS, calls, envVars, deriverVars, schemaVars>>

\* register_tool_contract(tool_name, func, mcp, defaults=defaults, safe=safe)
register_tool_contract(tool_name, defaults, safe) ==
    LET tool == get_tool(tool_name)
    IN  IF IsNone(tool)
        THEN \* line 68: raise ValueError
             /\ registration' = NotRegistered
             /\ UNCHANGED <<_CONTRACTS, _CONTRACTS_BY_NAME, _PATCHED, wrappers,
                            MCP_STRUCTURED_LOGS, calls, envVars, deriverVars, schemaVars>>
        ELSE LET config == ToolContractConfig(tool.name,
                               IF defaults = NoneV THEN EmptyDict ELSE defaults, safe)
             IN  /\ _CONTRACTS' = Put(_CONTRACTS, fn_metadata_id(tool.name), config)
                 /\ _CONTRACTS_BY_NAME' = Put(_CONTRACTS_BY_NAME, tool.name, config)
                 /\ registration' = Registered
                 /\ _ensure_patches_applied
                 /\ UNCHANGED <<MCP_STRUCTURED_LOGS, calls, envVars, deriverVars, schemaVars>>

\* os.environ["MCP_STRUCTURED_LOGS"] is set by the operator
SetStructuredLogs(v) ==
    /\ MCP_STRUCTURED_LOGS # v
    /\ MCP_STRUCTURED_LOGS' = v
    /\ UNCHANGED <<registryVars, calls, envVars, deriverVars, schemaVars>>

\* str(value) of the values json.dumps hands to default=str
Lowercase ==
    <<"a","b","c","d","e","f","g","h","i","j","k","l","m",
      "n","o","p","q","r","s","t","u","v","w","x","y","z">>
\* the bytes literal of printable lowercase octets
BytesLiteral(b) == <<"b'">> \o [i \in DOMAIN b |-> Lowercase[b[i] - 96]] \o <<"'">>
str(v) ==
    CASE v.k = "date" -> isoformat(v)
      [] v.k = "decimal" -> StrV(v.d)
      [] v.k = "bytes" -> StrV(BytesLiteral(v.b))
      [] v.k = "bytearray" -> StrV(<<"bytearray(">> \o BytesLiteral(v.b) \o <<")">>)

\* The kinds json.dumps serializes by itself; a tuple goes out as a list.
JsonBasic == {"str", "int", "float", "bool", "none"}

\* json.dumps raises TypeError: a dict key that is none of str, int, float,
\* bool, None or, without a default, a value of a kind it does not serialize.
RECURSIVE JsonRaises(_, _)
JsonRaises(v, with_default) ==
    CASE v.k \in JsonBasic -> FALSE
      [] v.k \in {"list", "tuple"} ->
            \E i \in DOMAIN v.xs : JsonRaises(v.xs[i], with_default)
      [] v.k = "dict" ->
            \E i \in DOMAIN v.items :
                \/ v.items[i][1].k \notin JsonBasic
                \/ JsonRaises(v.items[i][2], with_default)
      [] OTHER -> ~with_default

\* What json.dumps(v, default=str) writes, as the JSON value: None is null,
\* the keys are strings, a value of another kind is its str().
RECURSIVE JsonValue(_)
JsonValue(v) ==
    CASE v.k \in JsonBasic -> v
      [] v.k \in {"list", "tuple"} -> ListV([i \in DOMAIN v.xs |-> JsonValue(v.xs[i])])
      [] v.k = "dict" ->
            DictV([i \in DOMAIN v.items |->
                      <<IF v.items[i][1].k = "none" THEN StrV(<<"null">>)
                        ELSE PyStr(v.items[i][1]),
                        JsonValue(v.items[i][2])>>])
      [] OTHER -> str(v)

\* Mutant of json_dumps: default=str is missing.
json_dumps_without_default(obj) ==
    IF \E key \in DOMAIN obj : JsonRaises(obj[key], FALSE)
    THEN [raised |-> "TypeError"]
    ELSE [raised |-> "none", text |-> [key \in DOMAIN obj |-> JsonValue(obj[key])]]

\* json.dumps(obj, default=str) of a record of values (lines 143-150, 157-164)
json_dumps(obj) ==
    IF \E key \in DOMAIN obj : JsonRaises(obj[key], TRUE)
    THEN [raised |-> "TypeError"]
    ELSE [raised |-> "none", text |-> [key \in DOMAIN obj |-> JsonValue(obj[key])]]

\* The tool-input and the tool-output record of a call.
InputRecord(name, arguments) ==
    [stage |-> StrV(<<"tool-input">>), tool |-> StrV(<<name>>), arguments |-> arguments]
OutputRecord(name, result) ==
    [stage |-> StrV(<<"tool-output">>), tool |-> StrV(<<name>>),
     result |-> DictV(<< <<Key("success"), BoolV(result.success)>>,
                         <<Key("error"),
                           DictV(<< <<Key("code"), StrV(<<result.error.code>>)>>,
                                    <<Key("message"), StrV(result.error.message)>>,
                                    <<Key("hint"), StrV(result.error.hint)>> >>)>>,
                         <<Key("data"), result.data>> >>)]

\* Mutant of logged: nothing is written.
logged_nothing(log, text) == log

\* logger.info(text) in each of the layers that wrap ToolManager.call_tool
logged(log, text) == log \o [i \in 1..wrappers |-> text]

\* Mutant of locals: the local variables are those of the call of slot 1.
locals_of_first_call(c) == IF calls[1].pc # "idle" THEN calls[1] ELSE calls[c]

\* The local variables of the coroutine of call c: name, arguments,
\* structured_logging_enabled, result.
locals(c) == calls[c]

\* Mutant of stored_defaults: the arguments are written into config.defaults.
stored_defaults_updated(config, raw_arguments) == DictMerge(config.defaults, raw_arguments)

\* config.defaults after lines 112-115: {**config.defaults, **raw_arguments}
\* builds a new dict, the stored one is as before.
stored_defaults(config, raw_arguments) == config.defaults

\* patched_tool_call(self, name, arguments), lines 140-151, for a call of a
\* tool among Names with arguments among Arguments: the flag is read, the
\* tool-input record is logged, original_tool_call is awaited.
patched_tool_call(c, Names, Arguments) ==
    /\ _PATCHED
    /\ calls[c].pc = "idle"
    /\ \E name \in Names, arguments \in Arguments :
         LET structured_logging_enabled == MCP_STRUCTURED_LOGS = "1"
             record == json_dumps(InputRecord(name, arguments))
             started == [pc |-> "dispatch", name |-> name, arguments |-> arguments,
                         structured_logging_enabled |-> structured_logging_enabled,
                         log |-> <<>>, fn |-> [kind |-> "none"], passes |-> 0,
                         invoked |-> 0, fn_is_async |-> TRUE,
                         handler |-> [kind |-> "none"], result |-> NoneV,
                         exception |-> "none", returned |-> NoneV]
         IN  calls' = [calls EXCEPT ![c] =
                IF ~structured_logging_enabled THEN started
                ELSE IF record.raised # "none"
                THEN [started EXCEPT !.pc = "raised", !.exception = record.raised]
                ELSE [started EXCEPT !.log = logged(<<>>, record.text)]]
    /\ UNCHANGED <<registryVars, MCP_STRUCTURED_LOGS, envVars, deriverVars, schemaVars>>

\* original_tool_call reaches call_fn_with_arg_validation, which is
\* patched_call_fn, lines 108-131, up to the call of the handler.
call_fn_with_arg_validation(c) ==
    /\ calls[c].pc = "dispatch"
    /\ LET config == get_tool_contract(fn_metadata_id(locals(c).name))
           fn == patched_call_fn(config, locals(c).name, locals(c).arguments)
           after(contract) ==
               IF ~IsNone(config) /\ contract = config
               THEN [contract EXCEPT !.defaults = stored_defaults(config, fn.raw_arguments)]
               ELSE contract
       IN  /\ calls' = [calls EXCEPT ![c] =
                [@ EXCEPT !.fn = fn,
                          !.pc = CASE fn.kind = "raise" -> "raised"
                                   [] fn.kind = "return" -> "returned"
                                   [] fn.kind = "invoke" -> "handler",
                          !.passes = @ + 1,
                          !.invoked = IF fn.kind = "invoke" THEN @ + 1 ELSE @,
                          !.exception = IF fn.kind = "raise" THEN "ValidationError" ELSE @,
                          !.result = IF fn.kind = "return" THEN fn.result ELSE @]]
           \* the config is one object, held by both indexes
           /\ _CONTRACTS' = [id \in DOMAIN _CONTRACTS |-> after(_CONTRACTS[id])]
           /\ _CONTRACTS_BY_NAME' =
                 [n \in DOMAIN _CONTRACTS_BY_NAME |-> after(_CONTRACTS_BY_NAME[n])]
    /\ UNCHANGED <<_PATCHED, wrappers, registration, MCP_STRUCTURED_LOGS, envVars, deriverVars, schemaVars>>

\* Mutant of return_of_fn: the result of the handler is put into an envelope
\* of the interceptor.
return_of_fn_wrapped(result) ==
    [result EXCEPT !.data = DictV(<< <<Key("result"), result.data>> >>)]

\* lines 129-131: return await fn(...) / return fn(...), what the handler
\* returned is what patched_call_fn returns.
return_of_fn(result) == result

\* The handler returns; patched_call_fn returns its result (lines 129-131).
HandlerReturns(c, result) ==
    /\ calls[c].pc = "handler"
    /\ calls' = [calls EXCEPT ![c] =
            [@ EXCEPT !.pc = "returned",
                      !.handler = [kind |-> "returned", value |-> result],
                      !.result = return_of_fn(result)]]
    /\ UNCHANGED <<registryVars, MCP_STRUCTURED_LOGS, envVars, deriverVars, schemaVars>>

\* The handler raises; nothing of this layer catches it.
HandlerRaises(c) ==
    /\ calls[c].pc = "handler"
    /\ calls' = [calls EXCEPT ![c] =
            [@ EXCEPT !.pc = "raised",
                      !.handler = [kind |-> "raised", exception |-> "HandlerError"],
                      !.exception = "HandlerError"]]
    /\ UNCHANGED <<registryVars, MCP_STRUCTURED_LOGS, envVars, deriverVars, schemaVars>>

\* patched_call_fn, lines 108-131, for a handler that is no coroutine
\* function (fn_is_async is False): the arguments are valid and the handler
\* runs inside the call, it returns one of Results or raises.
call_fn_with_sync_handler(c, Results) ==
    /\ calls[c].pc = "dispatch"
    /\ LET config == get_tool_contract(fn_metadata_id(locals(c).name))
           fn == patched_call_fn(config, locals(c).name, locals(c).arguments)
           after(contract) ==
               IF ~IsNone(config) /\ contract = config
               THEN [contract EXCEPT !.defaults = stored_defaults(config, fn.raw_arguments)]
               ELSE contract
       IN  /\ fn.kind = "invoke"
           /\ \E handler \in { [kind |-> "returned", value |-> result] : result \in Results }
                              \cup { [kind |-> "raised", exception |-> "HandlerError"] } :
                 calls' = [calls EXCEPT ![c] =
                    [@ EXCEPT !.fn = fn,
                              !.fn_is_async = FALSE,
                              !.passes = @ + 1,
                              !.invoked = @ + 1,
                              !.handler = handler,
                              !.pc = IF handler.kind = "returned" THEN "returned"
                                     ELSE "raised",
                              !.result = IF handler.kind = "returned"
                                         THEN return_of_fn(handler.value) ELSE @,
                              !.exception = IF handler.kind = "raised"
                                            THEN handler.exception ELSE @]]
           /\ _CONTRACTS' = [id \in DOMAIN _CONTRACTS |-> after(_CONTRACTS[id])]
           /\ _CONTRACTS_BY_NAME' =
                 [n \in DOMAIN _CONTRACTS_BY_NAME |-> after(_CONTRACTS_BY_NAME[n])]
    /\ UNCHANGED <<_PATCHED, wrappers, registration, MCP_STRUCTURED_LOGS, envVars, deriverVars, schemaVars>>

\* Mutant of sampled_flag: the environment is read again at line 155.
sampled_flag_read_again(c) == MCP_STRUCTURED_LOGS = "1"

\* line 155: the local variable structured_logging_enabled of the call
sampled_flag(c) == locals(c).structured_logging_enabled

\* patched_tool_call, lines 155-166: the tool-output record is logged and the
\* result is returned.
ToolCallReturns(c) ==
    /\ calls[c].pc = "returned"
    /\ LET record == json_dumps(OutputRecord(locals(c).name, locals(c).result))
       IN  calls' = [calls EXCEPT ![c] =
                IF ~sampled_flag(c)
                THEN [@ EXCEPT !.pc = "done", !.returned = locals(c).result]
                ELSE IF record.raised # "none"
                THEN [@ EXCEPT !.pc = "raised", !.exception = record.raised]
                ELSE [@ EXCEPT !.pc = "done", !.returned = locals(c).result,
                               !.log = logged(@, record.text)]]
    /\ UNCHANGED <<registryVars, MCP_STRUCTURED_LOGS, envVars, deriverVars, schemaVars>>

\* The call is over: its result was returned (line 166) or its exception left
\* patched_tool_call, and the slot is free for the next call.
CallEnds(c) ==
    /\ calls[c].pc \in {"done", "raised"}
    /\ calls' = [calls EXCEPT ![c] = IdleCall]
    /\ UNCHANGED <<registryVars, MCP_STRUCTURED_LOGS, envVars, deriverVars, schemaVars>>

\* The envelope part is not used by the tool calls.
EnvOff ==
    /\ value = NoneV
    /\ outcome = [kind |-> "none"]
    /\ envPc = "off"

\* tool_args.py as imported: nothing derived yet (line 17).
DeriverOff ==
    /\ _MODEL_CACHE = << >>
    /\ frames = << >>
    /\ derived = << >>
    /\ created = 0

\* The schemas of the tools are not looked at.
SchemaOff ==
    /\ _tools = << >>
    /\ listed = << >>

Init == CallInit /\ EnvOff /\ DeriverOff /\ SchemaOff

\* One client: it sends its calls one after the other, over the first slot.
Next ==
    \/ initialize_tool_contracts
    \/ \E tool_name \in ContractTools :
          register_tool_contract(tool_name, RegisteredContract(tool_name).defaults,
                                 RegisteredContract(tool_name).safe)
    \/ \E v \in {"0", "1"} : SetStructuredLogs(v)
    \/ patched_tool_call(1, ToolNames, RawArguments)
    \/ call_fn_with_arg_validation(1)
    \/ \E result \in HandlerResults : HandlerReturns(1, result)
    \/ HandlerRaises(1)
    \/ ToolCallReturns(1)
    \/ CallEnds(1)

Spec == Init /\ [][Next]_vars

---------------------------------------------------------------------------
(* Registration in any order, with any name and any contract               *)

\* A name under which the tool manager holds no tool.
UnknownTools == { "unknown_tool" }

\* The defaults and safe arguments of register_tool_contract: no defaults for
\* a safe tool, or a mapping for a tool that is not safe.
ContractChoices ==
    { [defaults |-> NoneV, safe |-> TRUE],
      [defaults |-> DictV(<< <<Key("projectId"), StrV(<<>>)>>,
                             <<Key("status"), StrV(<<>>)>> >>),
       safe |-> FALSE] }

\* A few raw arguments: nothing, a value that is not JSON-native, a legacy
\* wrapper.
FewArguments ==
    { EmptyDict,
      DictV(<< <<Key("projectId"), DateV(2024, 1, 2)>> >>),
      DictV(<< <<Key("model"), DictV(<< <<Key("projectId"), StrV(<<"7">>)>> >>)>> >>) }

NextRegistry ==
    \/ initialize_tool_contracts
    \/ \E tool_name \in ToolNames \cup UnknownTools, contract \in ContractChoices :
          register_tool_contract(tool_name, contract.defaults, contract.safe)
    \/ \E v \in {"0", "1"} : SetStructuredLogs(v)
    \/ patched_tool_call(1, ToolNames, FewArguments)
    \/ call_fn_with_arg_validation(1)
    \/ call_fn_with_sync_handler(1, HandlerResults)
    \/ \E result \in HandlerResults : HandlerReturns(1, result)
    \/ HandlerRaises(1)
    \/ ToolCallReturns(1)
    \/ CallEnds(1)

SpecRegistry == Init /\ [][NextRegistry]_vars

---------------------------------------------------------------------------
(* The server after startup: main.py has registered the tools, the calls   *)
(* are dispatched concurrently, one coroutine per call.  A coroutine runs  *)
(* up to its next await without interruption.                              *)

Serving ==
    /\ _CONTRACTS = [id \in { fn_metadata_id(tool) : tool \in ContractTools } |->
                        RegisteredContract(
                            CHOOSE tool \in ContractTools : fn_metadata_id(tool) = id)]
    /\ _CONTRACTS_BY_NAME = [tool \in ContractTools |-> RegisteredContract(tool)]
    /\ _PATCHED = TRUE
    /\ wrappers = 1
    /\ registration = Registered
    /\ MCP_STRUCTURED_LOGS \in {"0", "1"}
    /\ calls = [c \in CallIds |-> IdleCall]

InitConcurrent == Serving /\ EnvOff /\ DeriverOff /\ SchemaOff

\* The tools the concurrent calls are for: one with a contract and defaults,
\* one without a contract.
FewTools == { "list_live_algorithms", "inner" }

\* What their handlers return: data with a value that is not JSON-native, or
\* an error.
FewResults ==
    { success_result(DictV(<< <<StrV(<<"raw">>), ByteArrayV(<<97>>)>> >>)),
      error_result("api-http-error", <<"HTTP ", "status_code", ": ", "detail">>,
                   <<"Verify credentials and payload fields for this QuantConnect API call.">>) }

NextConcurrent ==
    \/ \E v \in {"0", "1"} : SetStructuredLogs(v)
    \/ \E c \in CallIds :
          \/ patched_tool_call(c, FewTools, FewArguments)
          \/ call_fn_with_arg_validation(c)
          \/ \E result \in FewResults : HandlerReturns(c, result)
          \/ HandlerRaises(c)
          \/ ToolCallReturns(c)
          \/ CallEnds(c)

SpecConcurrent == InitConcurrent /\ [][NextConcurrent]_vars

---------------------------------------------------------------------------
(* The Result Envelope as a state machine: a value is at hand, one of the  *)
(* producers of a ToolResult runs on it.                                   *)

NoOutcome == [kind |-> "none"]

\* The error codes the handlers pass to error_result.
ErrorCodes == { "validation-error", "api-http-error", "api-request-error" }
Hints == { <<>>, <<"hint">> }

\* The error lists of the validation failures of the model.
ErrorLists ==
    { <<ErrorDetail("missing", <<LocName("projectId")>>, "Field required")>>,
      <<ErrorDetail("string_type", <<LocName("projectId")>>, "Input should be a valid string")>>,
      <<ErrorDetail("missing", <<LocName("args")>>, "Field required"),
        ErrorDetail("extra_forbidden", <<LocName("projectId")>>, "Extra inputs are not permitted")>> }

EnvInit ==
    /\ value \in Values
    /\ outcome = NoOutcome
    /\ envPc = "ready"
    /\ CallInit
    /\ MCP_STRUCTURED_LOGS = "0"
    /\ DeriverOff
    /\ SchemaOff

SuccessResult ==
    /\ envPc = "ready"
    /\ IsDict(value)
    /\ outcome' = [kind |-> "success_result", result |-> success_result(value)]
    /\ envPc' = "done"
    /\ UNCHANGED <<value, callVars, deriverVars, schemaVars>>

ErrorResult(code, hint) ==
    /\ envPc = "ready"
    /\ outcome' = [kind |-> "error_result", result |-> error_result(code, <<"message">>, hint)]
    /\ envPc' = "done"
    /\ UNCHANGED <<value, callVars, deriverVars, schemaVars>>

ValidationErrorResponse(errors) ==
    /\ envPc = "ready"
    /\ outcome' = [kind |-> "validation", result |-> _validation_error_response(errors)]
    /\ envPc' = "done"
    /\ UNCHANGED <<value, callVars, deriverVars, schemaVars>>

ExecuteApiCall(post, t) ==
    /\ envPc = "ready"
    /\ outcome' = [kind |-> "execute_api_call", post |-> post, transform |-> t,
                   result |-> execute_api_call(post, t, value)]
    /\ envPc' = "done"
    /\ UNCHANGED <<value, callVars, deriverVars, schemaVars>>

EnvNext ==
    \/ SuccessResult
    \/ \E code \in ErrorCodes, hint \in Hints : ErrorResult(code, hint)
    \/ \E errors \in ErrorLists : ValidationErrorResponse(errors)
    \/ \E post \in PostOutcomes, t \in Transforms : ExecuteApiCall(post, t)

SpecEnvelope == EnvInit /\ [][EnvNext]_vars

---------------------------------------------------------------------------
(* Schema Deriver: src/src/tool_args.py.  A request model with one field,  *)
(* n, is derived by get_args_model; a value is validated for n.            *)

\* The value of a numeral of decimal digits.
RECURSIVE DigitsValue(_)
DigitsValue(digits) ==
    IF Len(digits) = 0 THEN 0
    ELSE 10 * DigitsValue(SubSeq(digits, 1, Len(digits) - 1))
         + ((CHOOSE i \in DOMAIN DecimalDigits : DecimalDigits[i] = digits[Len(digits)]) - 1)

IsDigits(chars) ==
    Len(chars) > 0 /\ \A i \in DOMAIN chars : chars[i] \in Range(DecimalDigits)

\* The decimal numeral of a natural number.
RECURSIVE Numeral(_)
Numeral(n) ==
    IF n < 10 THEN <<DecimalDigits[n + 1]>>
    ELSE Numeral(n \div 10) \o <<DecimalDigits[(n % 10) + 1]>>

Returns(v) == [raised |-> "none", value |-> v]
Raises(exception) == [raised |-> exception]

\* int() of the numeral of a float or Decimal: the digits before the point,
\* with the sign; inf overflows, nan is no number.
int_of_numeral(numeral) ==
    LET negative == Len(numeral) > 0 /\ numeral[1] = "-"
        unsigned == IF negative THEN Tail(numeral) ELSE numeral
        point == IF \E i \in DOMAIN unsigned : unsigned[i] = "."
                 THEN CHOOSE i \in DOMAIN unsigned : unsigned[i] = "."
                 ELSE Len(unsigned) + 1
        whole == SubSeq(unsigned, 1, point - 1)
    IN  IF unsigned = <<"inf">> THEN Raises("OverflowError")
        ELSE IF unsigned = <<"nan">> THEN Raises("ValueError")
        ELSE Returns(IntV(IF negative THEN 0 - DigitsValue(whole) ELSE DigitsValue(whole)))

\* int(v)
int(v) ==
    CASE v.k = "int" -> Returns(v)
      [] v.k = "bool" -> Returns(IntV(IF v.b THEN 1 ELSE 0))
      [] v.k = "float" -> int_of_numeral(v.f)
      [] v.k = "decimal" -> int_of_numeral(v.d)
      [] v.k = "str" ->
            IF IsDigits(v.s) THEN Returns(IntV(DigitsValue(v.s))) ELSE Raises("ValueError")
      [] v.k \in {"bytes", "bytearray"} ->
            IF Len(v.b) > 0 /\ \A i \in DOMAIN v.b : v.b[i] \in 48..57
            THEN Returns(IntV(DigitsValue([i \in DOMAIN v.b |-> DecimalDigits[v.b[i] - 47]])))
            ELSE Raises("ValueError")
      [] OTHER -> Raises("TypeError")

\* lines 31-33: the "before" validator of a field that was int
_coerce(v) == IF v = NoneV THEN Returns(NoneV) ELSE int(v)

\* typing annotations: a type, List[inner], Union[args]; get_origin gives
\* origin, get_args gives args.
Type(name) == [origin |-> "None", name |-> name, args |-> << >>]
ListOf(inner) == [origin |-> "list", name |-> "List", args |-> <<inner>>]

\* The arguments of a Union without the repetitions, first occurrences kept.
RECURSIVE Dedup(_)
Dedup(args) ==
    IF Len(args) = 0 THEN << >>
    ELSE LET front == Dedup(SubSeq(args, 1, Len(args) - 1))
         IN  IF args[Len(args)] \in Range(front) THEN front
             ELSE Append(front, args[Len(args)])

\* typing.Union[args]: one argument left is that argument.
Union(args) ==
    LET distinct == Dedup(args)
    IN  IF Len(distinct) = 1 THEN distinct[1]
        ELSE [origin |-> "Union", name |-> "Union", args |-> distinct]

Optional(annotation) == Union(<<annotation, Type("NoneType")>>)

\* The request models handed to get_args_model: a flat one, one with nested
\* and list fields of the flat one, one that refers to itself, and two that
\* refer to each other.
RequestModels == { "Leaf", "Parent", "Node", "Ping", "Pong" }

\* model_cls.model_fields
model_fields(model_cls) ==
    CASE model_cls = "Leaf" -> <<Field("n", Type("int"))>>
      [] model_cls = "Parent" ->
            <<Field("leaf", Type("Leaf")), Field("leaves", ListOf(Type("Leaf"))),
              Field("count", Optional(Type("int")))>>
      [] model_cls = "Node" -> <<Field("next", Optional(Type("Node")))>>
      [] model_cls = "Ping" -> <<Field("pong", Type("Pong"))>>
      [] model_cls = "Pong" -> <<Field("pings", ListOf(Type("Ping")))>>

\* The BaseModel subclasses _convert_annotation comes to (line 27), in the
\* order it comes to them.
RECURSIVE Refs(_)
Refs(annotation) ==
    CASE annotation.origin = "None" ->
            IF annotation.name \in RequestModels THEN <<annotation.name>> ELSE << >>
      [] annotation.origin = "list" -> Refs(annotation.args[1])
      [] annotation.origin = "Union" ->
            Flatten([i \in DOMAIN annotation.args |-> Refs(annotation.args[i])])
      [] OTHER -> << >>

\* The part of returned that belongs to the i-th of the annotations.
Share(annotations, returned, i) ==
    LET refs == [j \in DOMAIN annotations |-> Refs(annotations[j])]
    IN  SubSeq(returned, Len(Flatten(SubSeq(refs, 1, i - 1))) + 1,
                         Len(Flatten(SubSeq(refs, 1, i))))

\* _convert_annotation: int becomes float, a BaseModel subclass becomes what
\* get_args_model returned for it (returned: these classes, in the order of
\* Refs), List and Union are rebuilt around their converted arguments, any
\* other annotation stays.
RECURSIVE _convert_annotation(_, _)
_convert_annotation(annotation, returned) ==
    CASE annotation.origin = "None" ->
            IF annotation.name \in RequestModels THEN returned[1]
            ELSE IF annotation.name = "int" THEN Type("float")
            ELSE annotation
      [] annotation.origin = "list" ->
            ListOf(_convert_annotation(annotation.args[1], returned))
      [] annotation.origin = "Union" ->
            Union([i \in DOMAIN annotation.args |->
                      _convert_annotation(annotation.args[i],
                                          Share(annotation.args, returned, i))])
      [] OTHER -> annotation

\* Whether _convert_annotation registers _coerce for the field (line 35): it
\* came to int, directly or inside List or Union.
RECURSIVE registers_coerce(_)
registers_coerce(annotation) ==
    CASE annotation.origin = "None" -> annotation.name = "int"
      [] annotation.origin \in {"list", "Union"} ->
            \E i \in DOMAIN annotation.args : registers_coerce(annotation.args[i])
      [] OTHER -> FALSE

\* The annotations of the field n of the request model.
IntAnnotations == { Type("int"), Optional(Type("int")) }
ListAnnotations == { ListOf(Type("int")) }

\* ArgsModel.model_validate({"n": v}) for the derived field: _coerce, the
\* validator of the field, runs first on the value of the field; its
\* ValueError becomes a ValidationError, another exception leaves
\* model_validate as it is; then what _coerce returned is validated against
\* the converted annotation.
args_model_validate(annotation, v) ==
    LET coerced == _coerce(v)
        converted == _convert_annotation(annotation, << >>)
    IN  CASE coerced.raised = "ValueError" ->
               [kind |-> "ValidationError", type |-> "value_error"]
          [] coerced.raised # "none" -> [kind |-> "raises", exception |-> coerced.raised]
          [] coerced.value = NoneV ->
               IF converted.origin = "Union" /\ Type("NoneType") \in Range(converted.args)
               THEN [kind |-> "validated", n |-> NoneV]
               ELSE [kind |-> "ValidationError",
                     type |-> IF converted.origin = "list" THEN "list_type" ELSE "float_type"]
          [] converted.origin = "list" ->
               [kind |-> "ValidationError", type |-> "list_type"]
          [] OTHER ->
               [kind |-> "validated",
                n |-> FloatV((IF coerced.value.n < 0 THEN <<"-">> ELSE <<>>)
                             \o Numeral(IF coerced.value.n < 0 THEN 0 - coerced.value.n
                                        ELSE coerced.value.n)
                             \o <<".", "0">>)]

\* tool_with_args, line 107: request_model(**args.model_dump()); the int
\* field of the request model takes a float without fraction as the int.
request_model(annotation, n) ==
    IF n = NoneV THEN NoneV ELSE int_of_numeral(n.f).value

\* The numbers and numerals a caller passes for n, next to the values of the
\* envelope.
NumberInputs ==
    { IntV(7), IntV(-7), BoolV(TRUE), StrV(<<"7">>), StrV(<<"1", ".", "5">>),
      FloatV(<<"7", ".", "0">>), FloatV(<<"1", ".", "5">>), FloatV(<<"-", "1", ".", "5">>),
      FloatV(<<"0", ".", "9">>), FloatV(<<"inf">>), FloatV(<<"nan">>), BytesV(<<55>>) }

ArgsInit ==
    /\ value \in NumberInputs \cup Values
    /\ outcome = NoOutcome
    /\ envPc = "ready"
    /\ CallInit
    /\ MCP_STRUCTURED_LOGS = "0"
    /\ DeriverOff
    /\ SchemaOff

\* The call of a tool_with_args tool with {"n": value}, up to the handler.
ArgsModelValidate(annotation) ==
    /\ envPc = "ready"
    /\ LET validated == args_model_validate(annotation, value)
       IN  outcome' = [kind |-> "model_validate", annotation |-> annotation,
                       validated |-> validated,
                       delivered |-> IF validated.kind = "validated"
                                     THEN [handler |-> TRUE,
                                           n |-> request_model(annotation, validated.n)]
                                     ELSE [handler |-> FALSE]]
    /\ envPc' = "done"
    /\ UNCHANGED <<value, callVars, deriverVars, schemaVars>>

ArgsNext ==
    \E annotation \in IntAnnotations \cup ListAnnotations : ArgsModelValidate(annotation)

SpecArgs == ArgsInit /\ [][ArgsNext]_vars

---------------------------------------------------------------------------
(* get_args_model as the calls it makes: a call that finds no derived      *)
(* model converts the fields one after the other, calls itself for every   *)
(* BaseModel subclass it comes to, and stores its model when it is done.   *)

\* The number of get_args_model calls Python nests before RecursionError
\* (sys.getrecursionlimit() frames) and of the calls the callers make.
RecursionLimit == 3
MaxDerivations == 3

\* The class create_model builds (lines 76-81): a type of its own identity.
ArgsModel(id, model_cls, fields, validators) ==
    [origin |-> "None", name |-> model_cls \o "Args", args |-> << >>, id |-> id,
     base |-> "ArgsBaseModel", fields |-> fields, validators |-> validators]

\* line 51
in_cache_never(model_cls) == FALSE
in_cache(model_cls) == model_cls \in DOMAIN _MODEL_CACHE

\* lines 54-55: the call has the classes of its fields before it
Frame(model_cls) ==
    [model_cls |-> model_cls,
     pending |-> Flatten([i \in DOMAIN model_fields(model_cls) |->
                             Refs(model_fields(model_cls)[i].annotation)]),
     returned |-> << >>]

Derived(model_cls, raised, result) ==
    [model_cls |-> model_cls, raised |-> raised, result |-> result]

\* A caller calls get_args_model(model_cls): lines 49-55.
get_args_model(model_cls) ==
    /\ frames = << >>
    /\ Len(derived) < MaxDerivations
    /\ IF in_cache(model_cls)
       THEN /\ derived' = Append(derived, Derived(model_cls, "none", _MODEL_CACHE[model_cls]))
            /\ UNCHANGED frames
       ELSE /\ frames' = <<Frame(model_cls)>>
            /\ UNCHANGED derived
    /\ UNCHANGED <<_MODEL_CACHE, created, envVars, callVars, schemaVars>>

\* The innermost call comes to a BaseModel subclass and calls get_args_model
\* for it (line 28): the cached model comes back at once, otherwise the call
\* nests; too deep a nesting ends every call with RecursionError.
nested_get_args_model ==
    /\ frames # << >>
    /\ frames[Len(frames)].pending # << >>
    /\ LET top == frames[Len(frames)]
           model_cls == Head(top.pending)
       IN  IF in_cache(model_cls)
           THEN /\ frames' = [frames EXCEPT ![Len(frames)] =
                                 [top EXCEPT !.pending = Tail(top.pending),
                                             !.returned = Append(top.returned,
                                                                 _MODEL_CACHE[model_cls])]]
                /\ UNCHANGED derived
           ELSE IF Len(frames) < RecursionLimit
           THEN /\ frames' = Append(frames, Frame(model_cls))
                /\ UNCHANGED derived
           ELSE /\ frames' = << >>
                /\ derived' = Append(derived,
                                     Derived(frames[1].model_cls, "RecursionError", NoneV))
    /\ UNCHANGED <<_MODEL_CACHE, created, envVars, callVars, schemaVars>>

\* The innermost call has converted every field: lines 76-84.
create_model ==
    /\ frames # << >>
    /\ frames[Len(frames)].pending = << >>
    /\ LET top == frames[Len(frames)]
           fields == model_fields(top.model_cls)
           annotations == [i \in DOMAIN fields |-> fields[i].annotation]
           model == ArgsModel(created + 1, top.model_cls,
                       [i \in DOMAIN fields |->
                           Field(fields[i].name,
                                 _convert_annotation(fields[i].annotation,
                                                     Share(annotations, top.returned, i)))],
                       { fields[i].name : i \in { j \in DOMAIN fields :
                                                    registers_coerce(fields[j].annotation) } })
       IN  /\ created' = created + 1
           /\ _MODEL_CACHE' = Put(_MODEL_CACHE, top.model_cls, model)
           /\ IF Len(frames) = 1
              THEN /\ frames' = << >>
                   /\ derived' = Append(derived, Derived(top.model_cls, "none", model))
              ELSE /\ LET caller == frames[Len(frames) - 1]
                       IN  frames' = [SubSeq(frames, 1, Len(frames) - 1)
                                        EXCEPT ![Len(frames) - 1] =
                                          [caller EXCEPT
                                             !.pending = Tail(caller.pending),
                                             !.returned = Append(caller.returned, model)]]
                   /\ UNCHANGED derived
    /\ UNCHANGED <<envVars, callVars, schemaVars>>

DeriverInit ==
    /\ CallInit
    /\ MCP_STRUCTURED_LOGS = "0"
    /\ EnvOff
    /\ DeriverOff
    /\ SchemaOff

DeriverNext ==
    \/ \E model_cls \in RequestModels : get_args_model(model_cls)
    \/ nested_get_args_model
    \/ create_model

---------------------------------------------------------------------------
(* patched_call_fn on any raw arguments, for the tools as main.py          *)
(* registered them                                                         *)

\* What a caller may pass that is no dict, next to None.
NoMappings == { ListV(<< >>), StrV(<<"7">>) }

InterceptorInit ==
    /\ Serving
    /\ value \in RawArguments \cup NoMappings
    /\ outcome = NoOutcome
    /\ envPc = "ready"
    /\ DeriverOff
    /\ SchemaOff

\* patched_call_fn(self, fn, fn_is_async, arguments_to_validate, ...) of the
\* tool with value as arguments_to_validate, up to the call of the handler.
PatchedCallFn(tool) ==
    /\ envPc = "ready"
    /\ outcome' = [kind |-> "patched_call_fn", tool |-> tool,
                   fn |-> patched_call_fn(get_tool_contract(fn_metadata_id(tool)),
                                          tool, value)]
    /\ envPc' = "done"
    /\ UNCHANGED <<value, callVars, deriverVars, schemaVars>>

InterceptorNext == \E tool \in ToolNames : PatchedCallFn(tool)

SpecInterceptor == InterceptorInit /\ [][InterceptorNext]_vars

SpecDeriver == DeriverInit /\ [][DeriverNext]_vars

---------------------------------------------------------------------------
(* The input schemas of the tools: what the tool manager holds for a tool  *)
(* (tool.parameters, made by pydantic from the signature under the         *)
(* configuration tool_contract.py gives ArgModelBase) and what             *)
(* mcp.list_tools, wrapped by main.py, returns.                            *)

\* The number of parameters of a tool that is registered after main.py's.
MaxParams == 2

Text(text) == StrV(<<text>>)

\* The annotation written in a signature.
Annotation(text) ==
    CASE text = "List[str]" -> ListOf(Type("str"))
      [] text = "List[int]" -> ListOf(Type("int"))
      [] text = "List[FilePayload]" -> ListOf(Type("FilePayload"))
      [] text = "List[SearchCriteriaInput]" -> ListOf(Type("SearchCriteriaInput"))
      [] text = "List[OptimizationParameterInput]" ->
            ListOf(Type("OptimizationParameterInput"))
      [] text = "Optional[int]" -> Optional(Type("int"))
      [] text = "Dict[str, Any]" ->
            [origin |-> "dict", name |-> "Dict", args |-> <<Type("str"), Type("Any")>>]
      [] OTHER -> Type(text)

\* The tools of main.py, one of every kind of signature the tool modules
\* have: no parameter, str and bool parameters, a list of str, a mapping, a
\* TypedDict and lists of TypedDicts.
MainTools ==
    ContractTools \cup
    { "read_account", "create_project_collaborator", "update_project_nodes",
      "authorize_connection", "enhance_error_message", "search_quantconnect",
      "estimate_optimization_time" }

signature(tool) ==
    CASE tool \in ContractTools -> arg_model(tool)
      [] tool = "read_account" -> << >>
      [] tool = "create_project_collaborator" ->
            <<Field("projectId", "str"), Field("collaboratorUserId", "str"),
              Field("collaborationLiveControl", "bool"), Field("collaborationWrite", "bool")>>
      [] tool = "update_project_nodes" ->
            <<Field("projectId", "str"), Field("nodes", "List[str]")>>
      [] tool = "authorize_connection" -> <<Field("brokerage", "Dict[str, Any]")>>
      [] tool = "enhance_error_message" ->
            <<Field("language", "str"), Field("error", "ErrorPayload")>>
      [] tool = "search_quantconnect" ->
            <<Field("language", "str"), Field("criteria", "List[SearchCriteriaInput]")>>
      [] tool = "estimate_optimization_time" ->
            <<Field("projectId", "str"), Field("name", "str"),
              Field("parameters", "List[OptimizationParameterInput]")>>

\* The TypedDicts of the signatures and the Args model of a tool_with_args
\* tool: the fields, whether all are required (total), and whether the class
\* is a model under ArgsBaseModel.
ClassNames ==
    { "FilePayload", "ErrorPayload", "SearchCriteriaInput", "OptimizationParameterInput",
      "LeafArgs" }

class_fields(name) ==
    CASE name = "FilePayload" -> [total |-> TRUE, model |-> FALSE, fields |-> FilePayload]
      [] name = "ErrorPayload" ->
            [total |-> FALSE, model |-> FALSE,
             fields |-> <<Field("message", "str"), Field("stacktrace", "str")>>]
      [] name = "SearchCriteriaInput" ->
            [total |-> TRUE, model |-> FALSE,
             fields |-> <<Field("input", "str"), Field("type", "str"), Field("count", "str")>>]
      [] name = "OptimizationParameterInput" ->
            [total |-> FALSE, model |-> FALSE,
             fields |-> <<Field("name", "str"), Field("min", "float"), Field("max", "float"),
                          Field("step", "float"), Field("minStep", "float")>>]
      [] name = "LeafArgs" ->
            [total |-> TRUE, model |-> TRUE, fields |-> <<Field("n", "float")>>]

\* A class without model_config: a TypedDict.
NoConfig == [extra |-> "ignore", json_schema_extra |-> EmptyDict]

\* Mutant of ArgModelBase.model_config: the configuration FastMCP gives the
\* class, without the assignment of tool_contract.py.
ArgModelBase_model_config_default ==
    [extra |-> "ignore", json_schema_extra |-> EmptyDict]

\* The configuration of the argument models of the tools.
ArgModelBase_model_config ==
    [extra |-> "forbid",
     json_schema_extra |-> DictV(<< <<Key("additionalProperties"), BoolV(FALSE)>> >>)]

\* ArgsBaseModel.model_config
ArgsBaseModel_model_config ==
    [extra |-> "forbid",
     json_schema_extra |-> DictV(<< <<Key("additionalProperties"), BoolV(FALSE)>> >>)]

\* The JSON type of a Python type.
JsonType(name) ==
    CASE name = "str" -> "string"
      [] name = "int" -> "integer"
      [] name = "float" -> "number"
      [] name = "bool" -> "boolean"
      [] name = "NoneType" -> "null"

\* The JSON schema of an annotation; a class is a reference to its
\* definition.
RECURSIVE json_schema(_)
json_schema(annotation) ==
    CASE annotation.origin = "list" ->
            DictV(<< <<Key("items"), json_schema(annotation.args[1])>>,
                     <<Key("type"), Text("array")>> >>)
      [] annotation.origin = "Union" ->
            DictV(<< <<Key("anyOf"),
                       ListV([i \in DOMAIN annotation.args |->
                                 json_schema(annotation.args[i])])>> >>)
      [] annotation.origin = "dict" ->
            DictV(<< <<Key("additionalProperties"), BoolV(TRUE)>>,
                     <<Key("type"), Text("object")>> >>)
      [] annotation.origin = "None" /\ annotation.name \in ClassNames ->
            DictV(<< <<Key("$ref"), StrV(<<"#/$defs/", annotation.name>>)>> >>)
      [] OTHER -> DictV(<< <<Key("type"), Text(JsonType(annotation.name))>> >>)

\* The classes an annotation refers to.
RECURSIVE ClassRefs(_)
ClassRefs(annotation) ==
    IF annotation.origin = "None"
    THEN IF annotation.name \in ClassNames THEN <<annotation.name>> ELSE << >>
    ELSE Flatten([i \in DOMAIN annotation.args |-> ClassRefs(annotation.args[i])])

\* "properties" of the fields: the schema of each field under its name, with
\* the title made from the name unless the schema is a reference.
properties(fields) ==
    DictV([i \in DOMAIN fields |->
        <<Key(fields[i].name),
          LET schema == json_schema(Annotation(fields[i].annotation))
          IN  IF HasKey(schema, Key("$ref")) THEN schema
              ELSE DictV(DictSet(schema.items, Key("title"),
                                 StrV(<<"title of ", fields[i].name>>)))>>])

\* The schema of an object with these fields: config.json_schema_extra is
\* merged into it; required lists the required fields and is left out when
\* there is none.
object_schema(title, fields, required, config) ==
    DictMerge(
        DictV(<< <<Key("properties"), properties(fields)>> >>
              \o (IF required # << >>
                  THEN << <<Key("required"), ListV([i \in DOMAIN required |->
                                                       Text(required[i].name)])>> >>
                  ELSE << >>)
              \o << <<Key("title"), Text(title)>>, <<Key("type"), Text("object")>> >>),
        config.json_schema_extra)

\* "$defs": the definitions of the classes the fields refer to.
definitions(fields) ==
    LET names == Dedup(Flatten([i \in DOMAIN fields |->
                                   ClassRefs(Annotation(fields[i].annotation))]))
    IN  DictV([i \in DOMAIN names |->
            <<Key(names[i]),
              LET class == class_fields(names[i])
              IN  object_schema(names[i], class.fields,
                                IF class.total THEN class.fields ELSE << >>,
                                IF class.model THEN ArgsBaseModel_model_config
                                ELSE NoConfig)>>])

\* tool.parameters: arg_model.model_json_schema() of the signature, every
\* parameter required.
parameters(tool, fields) ==
    LET defs == definitions(fields)
    IN  DictMerge(IF defs = EmptyDict THEN EmptyDict
                  ELSE DictV(<< <<Key("$defs"), defs>> >>),
                  object_schema(tool \o "Arguments", fields, fields,
                                ArgModelBase_model_config))

\* The tool the tool manager holds: the model of its arguments and the
\* schema made from it.
Tool(tool, fields) == [arg_model |-> fields, parameters |-> parameters(tool, fields)]

\* dict.setdefault
setdefault(d, key, default) ==
    IF HasKey(d, key) THEN d ELSE DictV(DictSet(d.items, key, default))

\* Mutant of _fix: the nodes below the schema are not visited.
_fix_top_only(node) ==
    IF node.k = "dict" /\ DictGet(node, Key("type")) = Text("integer")
    THEN DictV(DictSet(node.items, Key("type"), Text("number")))
    ELSE node

\* main.py lines 58-66: "integer" becomes "number" in the node and in every
\* node under it.
RECURSIVE _fix(_)
_fix(node) ==
    CASE node.k = "dict" ->
            DictV([i \in DOMAIN node.items |->
                <<node.items[i][1],
                  IF node.items[i][1] = Key("type") /\ node.items[i][2] = Text("integer")
                  THEN Text("number")
                  ELSE _fix(node.items[i][2])>>])
      [] node.k = "list" -> ListV([i \in DOMAIN node.xs |-> _fix(node.xs[i])])
      [] OTHER -> node

\* Whether the schema has the one property args (line 54).
only_args(schema) ==
    LET props == DictGet(schema, Key("properties"))
    IN  /\ IsDict(props)
        /\ [i \in DOMAIN props.items |-> props.items[i][1]] = <<Key("args")>>

\* main.py lines 53-68: the schema list_tools gives for a tool with this
\* inputSchema.
shim(inputSchema) ==
    LET given == IF inputSchema = EmptyDict
                 THEN DictV(<< <<Key("type"), Text("object")>>,
                               <<Key("properties"), EmptyDict>> >>)
                 ELSE inputSchema
        schema == IF only_args(given)
                  THEN DictGet(DictGet(given, Key("properties")), Key("args"))
                  ELSE given
    IN  _fix(setdefault(setdefault(schema, Key("type"), Text("object")),
                        Key("additionalProperties"), BoolV(FALSE)))

\* What the statements of the shim leave in tool.parameters, whose nodes
\* below the top are the nodes of inputSchema: the node of args is the
\* schema that was returned, otherwise every node below the top is fixed.
after_shim(tool_parameters) ==
    IF tool_parameters = EmptyDict THEN tool_parameters
    ELSE IF only_args(tool_parameters)
    THEN DictV(DictSet(tool_parameters.items, Key("properties"),
                       DictV(<< <<Key("args"), shim(tool_parameters)>> >>)))
    ELSE DictV([i \in DOMAIN tool_parameters.items |->
                   <<tool_parameters.items[i][1], _fix(tool_parameters.items[i][2])>>])

\* The names and annotations of the parameters of the tools registered
\* after main.py's.
ParamNames == <<"args", "type", "count">>
ParamAnnotations ==
    { "str", "int", "Optional[int]", "List[int]", "Dict[str, Any]", "List[FilePayload]" }
Signatures ==
    UNION { { [i \in 1..n |-> Field(ParamNames[i], annotations[i])] :
                annotations \in [1..n -> ParamAnnotations] } : n \in 0..MaxParams }

\* The state after main.py's registrations (lines 29-46).
SchemaInit ==
    /\ _tools = [tool \in MainTools |-> Tool(tool, signature(tool))]
    /\ listed = << >>
    /\ CallInit
    /\ MCP_STRUCTURED_LOGS = "0"
    /\ EnvOff
    /\ DeriverOff

\* @mcp.tool() on a function with these parameters: the tool manager keeps
\* the tool it has under the name.
mcp_tool(name, fields) ==
    /\ name \notin DOMAIN _tools
    /\ _tools' = Put(_tools, name, Tool(name, fields))
    /\ UNCHANGED <<listed, envVars, callVars, deriverVars>>

\* tool_with_args (lines 104-116): inner(args: ArgsModel) is registered.
tool_with_args == mcp_tool("inner", <<Field("args", "LeafArgs")>>)

\* await mcp.list_tools(), which is _list_tools_with_shim (line 73).
_list_tools_with_shim ==
    /\ listed' = [tool \in DOMAIN _tools |-> shim(_tools[tool].parameters)]
    /\ _tools' = [tool \in DOMAIN _tools |->
                     [_tools[tool] EXCEPT !.parameters = after_shim(@)]]
    /\ UNCHANGED <<envVars, callVars, deriverVars>>

SchemaNext ==
    \/ \E fields \in Signatures : mcp_tool("extra_tool", fields)
    \/ tool_with_args
    \/ _list_tools_with_shim

SpecSchema == SchemaInit /\ [][SchemaNext]_vars

---------------------------------------------------------------------------
(* Claims about the Result Envelope, checked under SpecEnvelope            *)

Produced == outcome.kind # "none"

\* C2 (as claimed): every ToolResult produced by success_result, error_result,
\* the validation-failure path or execute_api_call has either non-empty data
\* and an empty error.code, or empty data and a non-empty error.code: never
\* both populated and never both empty.
C2_ExactlyOneOf ==
    Produced =>
        \/ outcome.result.data # EmptyDict /\ outcome.result.error.code = ""
        \/ outcome.result.data = EmptyDict /\ outcome.result.error.code # ""

\* C2 (amended): every ToolResult produced by success_result, error_result,
\* the validation-failure path or execute_api_call never has both data and
\* error.code populated: non-empty data comes with an empty error.code and a
\* non-empty error.code comes with empty data.  Both are empty after
\* success_result of an empty payload.
C2_NeverBothPopulated ==
    Produced =>
        /\ ~(outcome.result.data # EmptyDict /\ outcome.result.error.code # "")
        /\ (outcome.kind = "success_result" /\ value = EmptyDict
                => outcome.result.data = EmptyDict /\ outcome.result.error.code = "")

C2_Witness ==
    /\ outcome.kind = "success_result"
    /\ value = EmptyDict
    /\ outcome.result.data = EmptyDict
    /\ outcome.result.error.code = ""

RECURSIVE NoNone(_)
NoNone(v) ==
    /\ v.k # "none"
    /\ v.k \in {"list", "tuple", "set"} => \A i \in DOMAIN v.xs : NoNone(v.xs[i])
    /\ v.k = "dict" => \A i \in DOMAIN v.items : NoNone(v.items[i][1]) /\ NoNone(v.items[i][2])

HasNone(v) == ~NoNone(v)

\* C7: the envelope returned by success_result holds no None at any depth of
\* data, and its error fields are empty texts, whatever payload was passed.
C7_NoNullLeaves ==
    outcome.kind = "success_result" =>
        /\ NoNone(outcome.result.data)
        /\ outcome.result.error = [code |-> "", message |-> <<>>, hint |-> <<>>]

\* success_result ran on a payload that holds a None below a nested container
C7_Witness ==
    /\ outcome.kind = "success_result"
    /\ \E i \in DOMAIN value.items :
          /\ value.items[i][2].k \in {"list", "tuple", "set", "dict"}
          /\ HasNone(value.items[i][2])

RECURSIVE JsonNative(_)
JsonNative(v) ==
    CASE v.k \in {"str", "int", "float", "bool"} -> TRUE
      [] v.k = "list" -> \A i \in DOMAIN v.xs : JsonNative(v.xs[i])
      [] v.k = "dict" -> \A i \in DOMAIN v.items :
                            v.items[i][1].k = "str" /\ JsonNative(v.items[i][2])
      [] OTHER -> FALSE

\* C8: every value reachable in the data of a result of success_result is of
\* a JSON-native kind: str, number, bool, dict with str keys, or list.
C8_JsonSerializable ==
    outcome.kind = "success_result" => JsonNative(outcome.result.data)

\* The sanitized form of a value according to the rule of the claim, leaf by
\* leaf: the texts are those Python prints for the leaves of the model.
RECURSIVE SanitizedAs(_, _)
SanitizedAs(v, r) ==
    CASE v.k = "none" -> r = [k |-> "str", s |-> <<>>]
      [] v.k = "date" ->
            r = [k |-> "str", s |-> <<"2", "0", "2", "4", "-", "0", "1", "-", "0", "2">>]
      [] v.k = "decimal" -> r = [k |-> "float", f |-> <<"1", ".", "5">>]
      [] v.k = "bytes" -> r = [k |-> "str", s |-> <<"Y", "Q", "=", "=">>]
      [] v.k \in {"list", "tuple", "set"} ->
            /\ r.k = "list"
            /\ Len(r.xs) = Len(v.xs)
            /\ \A i \in DOMAIN v.xs : SanitizedAs(v.xs[i], r.xs[i])
      [] v.k = "dict" ->
            /\ r.k = "dict"
            /\ \A i \in DOMAIN r.items : r.items[i][1].k = "str"
            /\ \A i, j \in DOMAIN r.items : i # j => r.items[i][1] # r.items[j][1]
            \* the keys are the stringified keys
            /\ { r.items[i][1] : i \in DOMAIN r.items }
                 = { IF v.items[i][1].k = "int" THEN [k |-> "str", s |-> <<"1">>]
                     ELSE v.items[i][1] : i \in DOMAIN v.items }
            \* when no two keys print alike, each value is the sanitized value
            /\ Len(r.items) = Len(v.items)
                 => \A i \in DOMAIN v.items : SanitizedAs(v.items[i][2], r.items[i][2])
            \* in any case each value is the sanitized form of a value of the dict
            /\ \A i \in DOMAIN r.items : \E j \in DOMAIN v.items :
                    SanitizedAs(v.items[j][2], r.items[i][2])
      [] OTHER -> r = v

\* C9: success_result(data) returns success = true, the three error fields
\* empty, and data sanitized recursively: None to "", a mapping to a mapping
\* with stringified keys and sanitized values, a list/tuple/set to a list of
\* sanitized elements, a date to its ISO-8601 text, a Decimal to a float, bytes
\* to base64 text, every other value unchanged.
C9_SanitizationRule ==
    outcome.kind = "success_result" =>
        /\ outcome.result.success = TRUE
        /\ outcome.result.error.code = ""
        /\ outcome.result.error.message = <<>>
        /\ outcome.result.error.hint = <<>>
        /\ SanitizedAs(value, outcome.result.data)

\* success_result ran on a payload with a date, a Decimal or bytes inside a
\* tuple or set
C9_Witness ==
    /\ outcome.kind = "success_result"
    /\ \E i \in DOMAIN value.items :
          /\ value.items[i][2].k \in {"tuple", "set"}
          /\ \E j \in DOMAIN value.items[i][2].xs :
                value.items[i][2].xs[j].k \in {"date", "decimal", "bytes"}

---------------------------------------------------------------------------
(* Claims about the Invocation Interceptor, checked under Spec             *)

\* The calls that went through unwrap, default-filling and validation.
Validated == { c \in CallIds : calls[c].pc \notin {"idle", "dispatch"} }

\* data satisfies the argument model of the tool: every field is there with
\* a value of its type, and there is no other key.
ValidArguments(tool, data) ==
    /\ IsDict(data)
    /\ DictKeysOf(data) = { Key(arg_model(tool)[i].name) : i \in DOMAIN arg_model(tool) }
    /\ \A i \in DOMAIN arg_model(tool) :
          LET val == DictGet(data, Key(arg_model(tool)[i].name))
          IN  CASE arg_model(tool)[i].annotation = "str" -> val.k = "str"
                [] arg_model(tool)[i].annotation = "List[FilePayload]" ->
                      /\ val.k = "list"
                      /\ \A j \in DOMAIN val.xs :
                            /\ IsDict(val.xs[j])
                            /\ \A g \in Range(FilePayload) :
                                  DictGet(val.xs[j], Key(g.name)).k = "str"
                [] OTHER -> val = EmptyDict

HasContract(c) == ~IsNone(calls[c].fn.config)

\* C1: when a tool has a registered contract and its effective arguments fail
\* validation, the call returns the structured result (success = false,
\* error.code = "validation-error", data = {}); no exception escapes and the
\* handler is not called.
C1_ValidationFailureIsStructured ==
    \A c \in Validated :
        HasContract(c) /\ ~ValidArguments(calls[c].name, calls[c].fn.prepared_arguments)
        => /\ calls[c].pc \in {"returned", "done"}
           /\ calls[c].result.success = FALSE
           /\ calls[c].result.error.code = "validation-error"
           /\ calls[c].result.data = EmptyDict
           /\ calls[c].invoked = 0

\* a call of a contract tool with a missing field has returned
C1_Witness ==
    \E c \in Validated :
        /\ HasContract(c)
        /\ calls[c].name = "read_live_algorithm"
        /\ calls[c].arguments = EmptyDict
        /\ calls[c].pc = "done"

\* The defaults of the contract name every field of the tool.
DefaultsCoverFields(c) ==
    { Key(n) : n \in FieldNames(arg_model(calls[c].name)) }
        \subseteq DictKeysOf(calls[c].fn.config.defaults)

\* C3: a call with an empty argument mapping of a contract tool whose
\* defaults cover all required fields passes validation, and the handler is
\* called once with exactly the declared defaults.
C3_DefaultsRoundTrip ==
    \A c \in Validated :
        HasContract(c) /\ DefaultsCoverFields(c) /\ calls[c].arguments = EmptyDict
        => /\ calls[c].fn.kind = "invoke"
           /\ calls[c].invoked = 1
           /\ SameMapping(calls[c].fn.arguments_parsed_dict, calls[c].fn.config.defaults)

C3_Witness ==
    \E c \in Validated :
        /\ HasContract(c)
        /\ calls[c].name = "list_live_algorithms"
        /\ calls[c].arguments = EmptyDict
        /\ calls[c].pc = "handler"

\* arguments is {"model": A}
IsModelWrapped(arguments) ==
    /\ IsDict(arguments)
    /\ DictKeysOf(arguments) = { Key("model") }
    /\ IsDict(DictGet(arguments, Key("model")))

\* A holds a mapping under the key args or model
HoldsWrapperMapping(A) ==
    IsDict(DictGet(A, Key("args"))) \/ IsDict(DictGet(A, Key("model")))

\* A is a valid argument mapping of the tool: it satisfies the argument
\* model, or the tool accepts it when it is passed directly.
ValidCall(c, A) ==
    \/ ValidArguments(calls[c].name, A)
    \/ patched_call_fn(calls[c].fn.config, calls[c].name, A).kind = "invoke"

\* C4 (as claimed): for every tool and every valid argument mapping A, the
\* call with {"model": A} has the same effective arguments, the same handler
\* invocation and the same result as the call with A, also when A has a key
\* args or model whose value is a mapping.
C4_LegacyUnwrapEquivalence ==
    \A c \in Validated :
        LET A == DictGet(calls[c].arguments, Key("model"))
        IN  IsModelWrapped(calls[c].arguments) /\ ValidCall(c, A)
            => calls[c].fn = patched_call_fn(calls[c].fn.config, calls[c].name, A)

\* C4 (amended): for every tool and every valid argument mapping A that has
\* no key args or model whose value is a mapping, the call with {"model": A}
\* has the same effective arguments, the same handler invocation and the same
\* result as the call with A.
C4_LegacyUnwrapEquivalenceUnnested ==
    \A c \in Validated :
        LET A == DictGet(calls[c].arguments, Key("model"))
        IN  IsModelWrapped(calls[c].arguments) /\ ValidCall(c, A) /\ ~HoldsWrapperMapping(A)
            => calls[c].fn = patched_call_fn(calls[c].fn.config, calls[c].name, A)

\* a {"model": A} call with a valid A that overrides a default reached the handler
C4_Witness ==
    \E c \in Validated :
        /\ IsModelWrapped(calls[c].arguments)
        /\ DictGet(calls[c].arguments, Key("model")) # EmptyDict
        /\ ~HoldsWrapperMapping(DictGet(calls[c].arguments, Key("model")))
        /\ calls[c].pc = "handler"

\* C5: for a tool with a contract with non-empty defaults the effective
\* arguments are the defaults overlaid by the unwrapped caller arguments: the
\* caller's value under every key the caller supplied, the default under
\* every key only the defaults have, and no other key.
C5_DefaultOverlay ==
    \A c \in Validated :
        HasContract(c) /\ calls[c].fn.config.defaults # EmptyDict
        => LET defaults == calls[c].fn.config.defaults
               supplied == calls[c].fn.raw_arguments
               effective == calls[c].fn.prepared_arguments
           IN  /\ DictKeysOf(effective) = DictKeysOf(defaults) \cup DictKeysOf(supplied)
               /\ Injective([i \in DOMAIN effective.items |-> effective.items[i][1]])
               /\ \A key \in DictKeysOf(supplied) :
                     DictGet(effective, key) = DictGet(supplied, key)
               /\ \A key \in DictKeysOf(defaults) \ DictKeysOf(supplied) :
                     DictGet(effective, key) = DictGet(defaults, key)

\* the caller supplied one defaulted field and left the other to its default
C5_Witness ==
    \E c \in Validated :
        /\ HasContract(c)
        /\ calls[c].name = "list_live_algorithms"
        /\ DictGet(calls[c].fn.raw_arguments, Key("projectId")) = StrV(<<"7">>)
        /\ ~HasKey(calls[c].fn.raw_arguments, Key("status"))
        /\ DictGet(calls[c].fn.prepared_arguments, Key("projectId")) = StrV(<<"7">>)
        /\ DictGet(calls[c].fn.prepared_arguments, Key("status")) = StrV(<<>>)

\* C6: the unwrapped arguments of raw arguments that are a mapping are the
\* value under args when it is a mapping, otherwise the value under model
\* when it is a mapping, otherwise the raw arguments; args wins over model.
C6_UnwrapPriority ==
    \A c \in Validated :
        IsDict(calls[c].arguments)
        => LET underArgs == DictGet(calls[c].arguments, Key("args"))
               underModel == DictGet(calls[c].arguments, Key("model"))
           IN  /\ IsDict(underArgs) => calls[c].fn.raw_arguments = underArgs
               /\ ~IsDict(underArgs) /\ IsDict(underModel)
                     => calls[c].fn.raw_arguments = underModel
               /\ ~IsDict(underArgs) /\ ~IsDict(underModel)
                     => calls[c].fn.raw_arguments = calls[c].arguments

\* args and model both hold a mapping, and not the same one
C6_Witness ==
    \E c \in Validated :
        /\ IsDict(calls[c].arguments)
        /\ IsDict(DictGet(calls[c].arguments, Key("args")))
        /\ IsDict(DictGet(calls[c].arguments, Key("model")))
        /\ DictGet(calls[c].arguments, Key("args")) # DictGet(calls[c].arguments, Key("model"))

\* C10: when a tool has no registered contract and its effective arguments
\* fail validation, no ToolResult is made of the failure: the exception
\* leaves the call and the handler is not called.
C10_UnregisteredFailurePropagates ==
    \A c \in Validated :
        ~HasContract(c) /\ ~ValidArguments(calls[c].name, calls[c].fn.prepared_arguments)
        => /\ calls[c].pc = "raised"
           /\ calls[c].fn.kind = "raise"
           /\ calls[c].result = NoneV
           /\ calls[c].invoked = 0

\* a call of a tool without contract failed validation
C10_Witness ==
    \E c \in Validated :
        /\ ~HasContract(c)
        /\ calls[c].name = "inner"
        /\ calls[c].fn.errors # <<>>
        /\ calls[c].pc = "raised"

\* The required fields that the effective arguments of a call lack: the fields
\* of the tool that have no key, and the keys of FilePayload that a supplied
\* file object lacks.
ActuallyMissing(tool, data) ==
    { f.name : f \in { g \in Range(arg_model(tool)) : ~HasKey(data, Key(g.name)) } }
    \cup UNION { IF DictGet(data, Key(f.name)).k = "list"
                 THEN UNION { IF IsDict(DictGet(data, Key(f.name)).xs[i])
                              THEN { g.name : g \in { h \in Range(FilePayload) :
                                         ~HasKey(DictGet(data, Key(f.name)).xs[i], Key(h.name)) } }
                              ELSE {}
                              : i \in DOMAIN DictGet(data, Key(f.name)).xs }
                 ELSE {}
                 : f \in { g \in Range(arg_model(tool)) : g.annotation = "List[FilePayload]" } }

\* The names in alphabetical order, each once.
Alphabetical(names) ==
    SelectSeq(<<"args", "content", "files", "model", "name", "projectId", "status">>,
              LAMBDA n : n \in names)

\* C11: when a call of a contract tool fails validation with at least one
\* error of kind "missing", error.hint is "Provide values for required
\* fields: " followed by the names of the missing fields, sorted
\* alphabetically, each once, joined by ", "; the hint names only fields that
\* the effective arguments actually lack.
C11_MissingFieldsHint ==
    \A c \in Validated :
        HasContract(c) /\ (\E i \in DOMAIN calls[c].fn.errors : calls[c].fn.errors[i].type = "missing")
        => LET names == Alphabetical(ActuallyMissing(calls[c].name,
                                                     calls[c].fn.prepared_arguments))
           IN  calls[c].result.error.hint
                 = <<"Provide values for required fields: ">>
                   \o Join(", ", [i \in DOMAIN names |-> <<names[i]>>])

---------------------------------------------------------------------------
(* Claims about the Contract Registry, checked under SpecRegistry          *)

\* The records of a stage in the log of a call.
Records(c, stage) ==
    { i \in DOMAIN calls[c].log : calls[c].log[i].stage = [k |-> "str", s |-> <<stage>>] }

\* C12: whatever calls of initialize_tool_contracts and register_tool_contract
\* were made, the FastMCP routines are wrapped at most once, and exactly once
\* as soon as one of the calls returned; so a tool call makes one
\* unwrap/default/validate pass and logs at most one tool-input and one
\* tool-output record, exactly one of each when logging is enabled and the
\* call returns.
C12_IdempotentActivation ==
    /\ wrappers <= 1
    /\ (_PATCHED \/ DOMAIN _CONTRACTS # {} \/ DOMAIN _CONTRACTS_BY_NAME # {}) => wrappers = 1
    /\ \A c \in CallIds :
          calls[c].pc # "idle"
          => /\ calls[c].passes <= 1
             /\ calls[c].pc \notin {"idle", "dispatch"} => calls[c].passes = 1
             /\ Cardinality(Records(c, "tool-input")) <= 1
             /\ Cardinality(Records(c, "tool-output")) <= 1
             /\ calls[c].structured_logging_enabled
                   => Cardinality(Records(c, "tool-input")) = 1
             /\ calls[c].structured_logging_enabled /\ calls[c].pc = "done"
                   => Cardinality(Records(c, "tool-output")) = 1

\* three tools were registered and a logged call went through
C12_Witness ==
    /\ Cardinality(DOMAIN _CONTRACTS_BY_NAME) >= 3
    /\ calls[1].pc = "done"
    /\ calls[1].structured_logging_enabled
    /\ Len(calls[1].log) = 2

\* C13: register_tool_contract with a name under which the tool manager
\* holds no tool raises ValueError, and the step that raises adds nothing to
\* the by-identity index or to the by-name index; no index ever has an entry
\* for such a name.
C13_UnknownToolRaises ==
    /\ [](/\ registration.tool_is_None => registration.raised = "ValueError"
          /\ DOMAIN _CONTRACTS_BY_NAME \subseteq ToolNames
          /\ \A id \in DOMAIN _CONTRACTS : _CONTRACTS[id].name \in ToolNames)
    /\ [][registration'.raised = "ValueError"
              => UNCHANGED <<_CONTRACTS, _CONTRACTS_BY_NAME>>]_vars

\* the registration of an unknown name raised after two tools were registered
C13_Witness ==
    /\ registration.tool_is_None
    /\ registration.raised = "ValueError"
    /\ Cardinality(DOMAIN _CONTRACTS_BY_NAME) = 2
    /\ Cardinality(DOMAIN _CONTRACTS) = 2

\* get_tool_contract_configs(): a copy of the by-name index
lookup_by_name == _CONTRACTS_BY_NAME

\* C14: in every reachable state the two indexes agree: a tool has an entry
\* under its identity exactly when it has one under its name, both are the
\* same contract, and the contracts of the one index are those of the other.
C14_IndexAgreement ==
    /\ \A tool \in ToolNames :
          /\ fn_metadata_id(tool) \in DOMAIN _CONTRACTS <=> tool \in DOMAIN lookup_by_name
          /\ tool \in DOMAIN lookup_by_name
                => get_tool_contract(fn_metadata_id(tool)) = lookup_by_name[tool]
    /\ Range(_CONTRACTS) = Range(lookup_by_name)
    /\ \A name \in DOMAIN lookup_by_name : lookup_by_name[name].name = name

\* a tool the source registers with defaults holds a contract without them:
\* it was registered with other arguments
C14_Witness ==
    /\ "list_live_algorithms" \in DOMAIN _CONTRACTS_BY_NAME
    /\ _CONTRACTS_BY_NAME["list_live_algorithms"].safe
    /\ "read_live_algorithm" \in DOMAIN _CONTRACTS_BY_NAME
    /\ ~_CONTRACTS_BY_NAME["read_live_algorithm"].safe

---------------------------------------------------------------------------
(* Claims about the calls                                                  *)

\* C15: a step of a tool call leaves both indexes as they are, and with them
\* the name, the defaults and the safe flag of every contract.
C15_CallsLeaveRegistry ==
    [][calls' # calls => UNCHANGED <<_CONTRACTS, _CONTRACTS_BY_NAME>>]_vars

\* a call that overrode a default went through, the defaults are the registered ones
C15_Witness ==
    /\ calls[1].pc = "done"
    /\ calls[1].name = "list_live_algorithms"
    /\ calls[1].fn.kind = "invoke"
    /\ DictGet(calls[1].fn.raw_arguments, Key("status")) = StrV(<<"7">>)
    /\ HasContract(1)
    /\ "list_live_algorithms" \in DOMAIN _CONTRACTS_BY_NAME
    /\ _CONTRACTS_BY_NAME["list_live_algorithms"] = RegisteredContract("list_live_algorithms")

\* The calls that went through patched_call_fn.
Dispatched == { c \in CallIds : calls[c].pc # "idle" /\ calls[c].fn.kind # "none" }

\* C16: with the registration done and the calls interleaved in any way, what
\* a call validated, passed to its handler and returned is what
\* patched_call_fn gives for its own name and arguments, and the result
\* returned to its caller is the one its own dispatch produced.
C16_CallIsolation ==
    \A c \in Dispatched :
        /\ calls[c].fn = patched_call_fn(get_tool_contract(fn_metadata_id(calls[c].name)),
                                         calls[c].name, calls[c].arguments)
        /\ calls[c].fn.kind = "return" => calls[c].result = calls[c].fn.result
        /\ calls[c].pc = "done" => calls[c].returned = calls[c].result

\* two calls with different arguments are in flight, one inside its handler
C16_Witness ==
    /\ calls[1].pc = "returned"
    /\ calls[2].pc = "handler"
    /\ calls[1].name = calls[2].name
    /\ calls[1].arguments # calls[2].arguments

\* C17: when the flag was set as the call started, the log of the call is the
\* tool-input record, with the name and the arguments, from before the
\* dispatch on, and the tool-output record, with the name and the result,
\* after it once the call has returned; when the flag was not set the log is
\* empty.  The flag is the one read as the call started.
C17_LoggingOrder ==
    /\ [](\A c \in CallIds :
            calls[c].pc # "idle"
            => IF ~calls[c].structured_logging_enabled THEN calls[c].log = <<>>
               ELSE /\ Len(calls[c].log) = IF calls[c].pc = "done" THEN 2 ELSE 1
                    /\ calls[c].log[1].stage = [k |-> "str", s |-> <<"tool-input">>]
                    /\ calls[c].log[1].tool = [k |-> "str", s |-> <<calls[c].name>>]
                    /\ calls[c].log[1].arguments = JsonValue(calls[c].arguments)
                    /\ calls[c].pc = "done"
                          => /\ calls[c].log[2].stage = [k |-> "str", s |-> <<"tool-output">>]
                             /\ calls[c].log[2].tool = [k |-> "str", s |-> <<calls[c].name>>]
                             /\ DictGet(calls[c].log[2].result, Key("data"))
                                   = JsonValue(calls[c].returned.data)
                             /\ DictGet(calls[c].log[2].result, Key("success"))
                                   = [k |-> "bool", b |-> calls[c].returned.success])
    /\ [][\A c \in CallIds :
            calls[c].pc = "idle" /\ calls'[c].pc # "idle"
            => calls'[c].structured_logging_enabled = (MCP_STRUCTURED_LOGS = "1")]_vars

\* a call that started with the flag set returns after the flag was cleared
C17_Witness ==
    /\ calls[1].pc = "done"
    /\ calls[1].structured_logging_enabled
    /\ MCP_STRUCTURED_LOGS = "0"
    /\ Len(calls[1].log) = 2

\* A JSON value: null, str, number, bool, list, dict with str keys.
RECURSIVE IsJson(_)
IsJson(v) ==
    CASE v.k \in {"none", "str", "int", "float", "bool"} -> TRUE
      [] v.k = "list" -> \A i \in DOMAIN v.xs : IsJson(v.xs[i])
      [] v.k = "dict" -> \A i \in DOMAIN v.items :
                            v.items[i][1].k = "str" /\ IsJson(v.items[i][2])
      [] OTHER -> FALSE

---------------------------------------------------------------------------
(* Claims about the Schema Deriver, checked under SpecArgs                 *)

\* A number: int, float or Decimal that is finite.
IsNumber(v) ==
    \/ v.k = "int"
    \/ v.k = "float" /\ v.f \notin { <<"inf">>, <<"nan">> }
    \/ v.k = "decimal"

\* The fraction of a number is not zero.
HasFraction(v) ==
    LET numeral == IF v.k = "float" THEN v.f ELSE IF v.k = "decimal" THEN v.d ELSE <<>>
    IN  \E i \in DOMAIN numeral :
            /\ numeral[i] = "."
            /\ \E j \in (i + 1)..Len(numeral) : numeral[j] # "0"

\* The number cut at the point, sign kept.
Truncated(v) ==
    IF v.k = "int" THEN v.n
    ELSE LET numeral == IF v.k = "float" THEN v.f ELSE v.d
             negative == numeral[1] = "-"
             unsigned == IF negative THEN Tail(numeral) ELSE numeral
             point == CHOOSE i \in 1..(Len(unsigned) + 1) :
                         /\ i = Len(unsigned) + 1 \/ unsigned[i] = "."
                         /\ \A j \in 1..(i - 1) : unsigned[j] # "."
             whole == DigitsValue(SubSeq(unsigned, 1, point - 1))
         IN  IF negative THEN 0 - whole ELSE whole

\* C19: for a field whose source type is int, None is accepted and stays
\* None, a number is accepted and gives the integer it truncates to, and
\* every other value fails validation with a ValidationError; no other
\* exception leaves the validation.
C19_IntegerCoercionRule ==
    outcome.kind = "model_validate" /\ outcome.annotation \in IntAnnotations =>
        /\ outcome.validated.kind # "raises"
        /\ value = NoneV
              => outcome.validated.kind = "validated" /\ outcome.validated.n = NoneV
        /\ IsNumber(value)
              => /\ outcome.validated.kind = "validated"
                 /\ outcome.delivered.n = [k |-> "int", n |-> Truncated(value)]

\* C20: for a field whose source type is int, a number whose fraction is not
\* zero fails validation; the handler is not called with an integer made of
\* it.
C20_NonIntegralRejected ==
    outcome.kind = "model_validate" /\ outcome.annotation \in IntAnnotations
                                    /\ IsNumber(value) /\ HasFraction(value)
        => /\ outcome.validated.kind = "ValidationError"
           /\ ~outcome.delivered.handler

\* A list of numbers without fraction.
IsIntegralList(v) ==
    /\ v.k = "list"
    /\ \A i \in DOMAIN v.xs : IsNumber(v.xs[i]) /\ ~HasFraction(v.xs[i])

\* C25: for a field whose source type is List[int], a list of integral
\* numbers passes validation and the handler gets the list of the integers,
\* each element coerced by itself.
C25_ElementwiseCoercion ==
    outcome.kind = "model_validate" /\ outcome.annotation \in ListAnnotations
                                    /\ IsIntegralList(value)
        => /\ outcome.validated.kind = "validated"
           /\ outcome.delivered.n = ListV([i \in DOMAIN value.xs |->
                                             IntV(Truncated(value.xs[i]))])

---------------------------------------------------------------------------
(* Claims about get_args_model, checked under SpecDeriver                  *)

\* C21: every get_args_model call for one request model returns the same
\* class, the one the cache holds for it, and an entry of the cache, once
\* stored, is never replaced or removed.
C21_DerivationIdempotent ==
    /\ [](\A i \in DOMAIN derived :
            derived[i].raised = "none"
               => /\ derived[i].model_cls \in DOMAIN _MODEL_CACHE
                  /\ _MODEL_CACHE[derived[i].model_cls] = derived[i].result
                  /\ \A j \in DOMAIN derived :
                        derived[j].model_cls = derived[i].model_cls /\ derived[j].raised = "none"
                           => derived[j].result = derived[i].result)
    /\ [][\A model_cls \in DOMAIN _MODEL_CACHE :
            /\ model_cls \in DOMAIN _MODEL_CACHE'
            /\ _MODEL_CACHE'[model_cls] = _MODEL_CACHE[model_cls]]_vars

\* A model was derived inside the derivation of another one, and later calls
\* for both returned.
C21_Witness ==
    /\ Len(derived) = 3
    /\ {"Parent", "Leaf"} \subseteq DOMAIN _MODEL_CACHE
    /\ derived[1] = Derived("Parent", "none", _MODEL_CACHE["Parent"])
    /\ derived[2] = Derived("Leaf", "none", _MODEL_CACHE["Leaf"])
    /\ derived[3] = derived[1]
    /\ _MODEL_CACHE["Parent"].fields[1].annotation = _MODEL_CACHE["Leaf"]
    /\ created = 2

\* C30: every get_args_model call ends with a derived model, whatever the
\* fields of the request model refer to; none ends with RecursionError.
C30_DerivationTerminates ==
    \A i \in DOMAIN derived : derived[i].raised = "none"

---------------------------------------------------------------------------
(* Claims about the input schemas, checked under SpecSchema                *)

\* Whether a node of the schema, at any depth, has the type "integer".
RECURSIVE _has_integer_type(_)
_has_integer_type(node) ==
    CASE node.k = "dict" ->
            \/ DictGet(node, Key("type")) = Text("integer")
            \/ \E i \in DOMAIN node.items : _has_integer_type(node.items[i][2])
      [] node.k = "list" -> \E i \in DOMAIN node.xs : _has_integer_type(node.xs[i])
      [] OTHER -> FALSE

\* The schema list_tools gave for the parameter: the whole schema when the
\* parameter is the one parameter args.
ListedFor(tool, i) ==
    LET fields == _tools[tool].arg_model
    IN  IF [j \in DOMAIN fields |-> fields[j].name] = <<"args">> THEN listed[tool]
        ELSE DictGet(DictGet(listed[tool], Key("properties")), Key(fields[i].name))

\* C22: no schema that list_tools returned has a node of type "integer", at
\* any depth, and a parameter of type int is listed with the type "number".
C22_NoIntegerType ==
    \A tool \in DOMAIN listed :
        /\ ~_has_integer_type(listed[tool])
        /\ \A i \in DOMAIN _tools[tool].arg_model :
              _tools[tool].arg_model[i].annotation = "int"
                 => DictGet(ListedFor(tool, i), Key("type")) = Text("number")

\* list_tools returned the schema of a tool with an int parameter and
\* parameters that have int below the top of their schema.
C22_Witness ==
    /\ "extra_tool" \in DOMAIN listed
    /\ _tools["extra_tool"].arg_model
          = <<Field("args", "List[int]"), Field("type", "int")>>
    /\ DictGet(ListedFor("extra_tool", 1), Key("items"))
          = DictV(<< <<Key("type"), Text("number")>> >>)

\* Whether a node of the schema, at any depth, has oneOf, anyOf or allOf, or
\* a list as its type.
RECURSIVE UsesUnion(_)
UsesUnion(node) ==
    CASE node.k = "dict" ->
            \/ \E key \in { "oneOf", "anyOf", "allOf" } : HasKey(node, Key(key))
            \/ DictGet(node, Key("type")).k = "list"
            \/ \E i \in DOMAIN node.items : UsesUnion(node.items[i][2])
      [] node.k = "list" -> \E i \in DOMAIN node.xs : UsesUnion(node.xs[i])
      [] OTHER -> FALSE

ObjectShape(schema) ==
    /\ DictGet(schema, Key("type")) = Text("object")
    /\ DictGet(schema, Key("additionalProperties")) = BoolV(FALSE)
    /\ LET props == DictGet(schema, Key("properties"))
           required == DictGet(schema, Key("required"))
       IN  IsDict(props) /\ props.items # << >>
              => /\ required.k = "list"
                 /\ required.xs # << >>
                 /\ \A i \in DOMAIN required.xs : HasKey(props, required.xs[i])
    /\ ~UsesUnion(schema)

\* C23: for every tool main.py registers, the schema the tool declares, and
\* the schema list_tools returns for it, is an object schema with
\* additionalProperties false; when it has properties, required is a list
\* that is not empty and names properties only; nowhere in it is there
\* oneOf, anyOf or allOf, or a type that is a list.
C23_SchemaShape ==
    \A tool \in MainTools :
        /\ ObjectShape(_tools[tool].parameters)
        /\ tool \in DOMAIN listed => ObjectShape(listed[tool])

\* list_tools returned the schemas of main.py's tools: one without
\* properties, one with definitions of TypedDicts.
C23_Witness ==
    /\ MainTools \subseteq DOMAIN listed
    /\ DictGet(listed["read_account"], Key("properties")) = EmptyDict
    /\ HasKey(listed["search_quantconnect"], Key("$defs"))
    /\ DictGet(listed["update_code_to_pep8"], Key("required")) = ListV(<<Text("files")>>)

---------------------------------------------------------------------------
(* Claims about the handler, checked under SpecRegistry                    *)

\* C24: when the arguments are valid, the call returns the very value the
\* handler returned, and the exception the handler raised is the one that
\* leaves the call, for a handler that is a coroutine function and for one
\* that is not.
C24_ResultPassThrough ==
    \A c \in CallIds :
        calls[c].pc # "idle" =>
            /\ calls[c].handler.kind = "returned"
                  => /\ calls[c].pc \in {"returned", "done"}
                     /\ calls[c].result = calls[c].handler.value
                     /\ calls[c].pc = "done" => calls[c].returned = calls[c].handler.value
            /\ calls[c].handler.kind = "raised"
                  => /\ calls[c].pc = "raised"
                     /\ calls[c].exception = calls[c].handler.exception
                     /\ calls[c].returned = NoneV

\* A handler that is no coroutine function returned data that is not
\* JSON-native, with the records logged, and the call returned it.
C24_Witness ==
    /\ calls[1].pc = "done"
    /\ ~calls[1].fn_is_async
    /\ calls[1].structured_logging_enabled
    /\ calls[1].handler.kind = "returned"
    /\ calls[1].returned = success_result(DictV(<< <<StrV(<<"raw">>), ByteArrayV(<<97>>)>> >>))

\* C27: the handler of a call is invoked at most once, and when it is, the
\* arguments were unwrapped, then filled with the defaults, then validated
\* without error; after a validation failure, with or without contract, the
\* handler is not invoked.
C27_InvocationDiscipline ==
    \A c \in CallIds :
        calls[c].pc # "idle" =>
            /\ calls[c].invoked <= 1
            /\ calls[c].pc = "handler" \/ calls[c].handler.kind # "none"
                  => calls[c].invoked = 1
            /\ calls[c].invoked = 1
                  => LET fn == calls[c].fn
                         model == arg_model(calls[c].name)
                     IN  /\ fn.kind = "invoke"
                         /\ calls[c].passes = 1
                         /\ fn.raw_arguments = _unwrap_arguments(calls[c].arguments)
                         /\ fn.prepared_arguments
                               = prepared_arguments(fn.config, fn.raw_arguments)
                         /\ fn.errors = << >>
                         /\ ValidationErrors(model,
                                pre_parse_json(model, fn.prepared_arguments)) = << >>
            /\ calls[c].fn.kind \in {"raise", "return"}
                  => /\ calls[c].fn.errors # << >>
                     /\ calls[c].invoked = 0
                     /\ calls[c].handler.kind = "none"

\* The handler was invoked once for wrapped arguments that the defaults of
\* the contract completed.
C27_Witness ==
    /\ calls[1].pc = "done"
    /\ calls[1].invoked = 1
    /\ ~IsNone(calls[1].fn.config)
    /\ calls[1].fn.raw_arguments # calls[1].arguments
    /\ calls[1].fn.prepared_arguments # calls[1].fn.raw_arguments

---------------------------------------------------------------------------
(* C26, checked under SpecEnvelope; C28, under SpecInterceptor; C29, under *)
(* SpecConcurrent                                                          *)

\* C26: execute_api_call returns a ToolResult however the request and the
\* transform end: an HTTP status error gives the code api-http-error, a
\* request error api-request-error, another exception of the request
\* api-internal-error, an exception of the transform
\* result-normalization-error, each with success false and empty data; the
\* result is that of success_result exactly when the request and the
\* transform both succeeded.
C26_ExecuteApiCallCodes ==
    outcome.kind = "execute_api_call" =>
        LET result == outcome.result
            failed(code) == /\ result.success = FALSE
                            /\ result.error.code = code
                            /\ result.data = EmptyDict
            transformed == outcome.post = "response"
                           /\ ~transform_raises(outcome.transform, value)
        IN  /\ outcome.post = "HTTPStatusError" => failed("api-http-error")
            /\ outcome.post = "RequestError" => failed("api-request-error")
            /\ outcome.post = "Exception" => failed("api-internal-error")
            /\ outcome.post = "response" /\ transform_raises(outcome.transform, value)
                  => failed("result-normalization-error")
            /\ transformed => result = success_result(transform(outcome.transform, value))
            /\ result.success <=> transformed

\* The request gave a response that is no dict and the transform raised on it.
C26_Witness ==
    /\ outcome.kind = "execute_api_call"
    /\ outcome.post = "response"
    /\ outcome.transform = "raw"
    /\ ~IsDict(value)
    /\ outcome.result.error.code = "result-normalization-error"

\* C28: the arguments that are filled and validated are the mapping under
\* args, else the mapping under model, as it is; else the raw arguments, or
\* the empty mapping when they are no mapping.  The keys next to the wrapper
\* are dropped: the prepared arguments have the keys of the defaults and of
\* the unwrapped mapping only, and every unknown-field error names a key of
\* the unwrapped mapping; a wrapper inside it stays.
C28_SingleLevelUnwrap ==
    outcome.kind = "patched_call_fn" =>
        LET fn == outcome.fn
            raw == fn.raw_arguments
            defaults == IF IsNone(fn.config) THEN EmptyDict ELSE fn.config.defaults
            under(key) == DictGet(value, Key(key))
        IN  /\ ~IsDict(value) => raw = EmptyDict
            /\ IsDict(value) /\ IsDict(under("args")) => raw = under("args")
            /\ IsDict(value) /\ ~IsDict(under("args")) /\ IsDict(under("model"))
                  => raw = under("model")
            /\ IsDict(value) /\ ~IsDict(under("args")) /\ ~IsDict(under("model"))
                  => raw = value
            /\ DictKeysOf(fn.prepared_arguments) = DictKeysOf(defaults) \cup DictKeysOf(raw)
            /\ \A i \in DOMAIN fn.errors :
                  fn.errors[i].type = "extra_forbidden"
                     => Key(fn.errors[i].loc[1].name) \in DictKeysOf(raw)

\* A wrapper with a wrapper inside and a key next to it: the inner wrapper
\* is what is validated, and it is the unknown field.
C28_Witness ==
    /\ outcome.kind = "patched_call_fn"
    /\ outcome.tool = "list_live_algorithms"
    /\ value = DictV(<< <<Key("args"), DictV(<< <<Key("model"), EmptyDict>> >>)>>,
                        <<Key("status"), StrV(<<"7">>)>> >>)
    /\ outcome.fn.raw_arguments = DictV(<< <<Key("model"), EmptyDict>> >>)
    /\ outcome.fn.kind = "return"
    /\ \E i \in DOMAIN outcome.fn.errors : outcome.fn.errors[i].type = "extra_forbidden"

\* The number of records of the stage in the log of the call.
Stage(c, stage) ==
    Len(SelectSeq(calls[c].log, LAMBDA record : record.stage = StrV(<<stage>>)))

\* C29: a call that returned has logged a tool-output record exactly when it
\* has logged a tool-input record, which is when the flag was set at its
\* start, whatever the flag is by now; a call whose dispatch raised has
\* logged no tool-output record and ends with the exception.
C29_FlagSampledOnce ==
    \A c \in CallIds :
        calls[c].pc # "idle" =>
            /\ Stage(c, "tool-input") > 0 <=> calls[c].structured_logging_enabled
            /\ calls[c].pc = "done"
                  => (Stage(c, "tool-output") > 0 <=> Stage(c, "tool-input") > 0)
            /\ calls[c].fn.kind = "raise" \/ calls[c].handler.kind = "raised"
                  => /\ calls[c].pc = "raised"
                     /\ calls[c].exception # "none"
                     /\ Stage(c, "tool-output") = 0

\* A call that started with the flag set returned and logged both records
\* while the flag is off; a call that started without the flag is with its
\* handler.
C29_Witness ==
    /\ MCP_STRUCTURED_LOGS = "0"
    /\ calls[1].pc = "done"
    /\ calls[1].structured_logging_enabled
    /\ Stage(1, "tool-input") = 1
    /\ Stage(1, "tool-output") = 1
    /\ calls[2].pc = "handler"
    /\ ~calls[2].structured_logging_enabled

=============================================================================
